---- MODULE Spec2Model ----
(***************************************************************************)
(* Bulldog kernel: the syscall-mediated I/O layer.                         *)
(*                                                                         *)
(* The model covers the file-descriptor table (kernel/src/syscall/fd.rs),  *)
(* the syscall handlers (open, read, write, close, exit, alloc, free),     *)
(* the syscall table and dispatcher, the errno encoding and the user-side  *)
(* decoding of return values (bulldog-syscall).                            *)
(*                                                                         *)
(* A u64 is a tuple of four 16-bit limbs, most significant first, so that  *)
(* values such as 0xFFFF_FFFF_FFFF_FFFF and the two's-complement errno     *)
(* encoding keep their 64-bit width.                                       *)
(***************************************************************************)
EXTENDS Integers, Sequences, FiniteSets, TLC

VARIABLES pc, fdTable, last, codec, mountTable, held, cpu, memFile, allocator, timer

\* What the syscall layer does not touch: the VFS side of the kernel (the
\* mount table, the spin locks held, the operation in progress, the MemFile
\* under test), the heap allocator and the tick counter with its watchdog.
vfsVars == <<mountTable, held, cpu, memFile, allocator, timer>>

vars == <<pc, fdTable, last, codec, mountTable, held, cpu, memFile, allocator, timer>>

-----------------------------------------------------------------------------
(* 64-bit words                                                            *)

LimbBase == 2^16

HalfLimb == 2^15

\* A value below 2^31 as a u64.
U(n) == <<0, 0, n \div LimbBase, n % LimbBase>>

\* A u64 from its four 16-bit groups, as written in the source (0xAAAA_BBBB_CCCC_DDDD).
Hex(a, b, c, d) == <<a, b, c, d>>

U64_MAX == Hex(65535, 65535, 65535, 65535)

U32_MAX == Hex(0, 0, 65535, 65535)

IsSmall(x) == x[1] = 0 /\ x[2] = 0 /\ x[3] < HalfLimb

\* The value of a u64 known to be below 2^31.
Val(x) == x[3] * LimbBase + x[4]

ULt(a, b) ==
    \/ a[1] < b[1]
    \/ a[1] = b[1] /\ a[2] < b[2]
    \/ a[1] = b[1] /\ a[2] = b[2] /\ a[3] < b[3]
    \/ a[1] = b[1] /\ a[2] = b[2] /\ a[3] = b[3] /\ a[4] < b[4]

ULe(a, b) == a = b \/ ULt(a, b)

\* a + b with the carry out of bit 63.
AddCarry(a, b) ==
    LET s4 == a[4] + b[4]
        s3 == a[3] + b[3] + (s4 \div LimbBase)
        s2 == a[2] + b[2] + (s3 \div LimbBase)
        s1 == a[1] + b[1] + (s2 \div LimbBase)
    IN  [sum   |-> <<s1 % LimbBase, s2 % LimbBase, s3 % LimbBase, s4 % LimbBase>>,
         carry |-> s1 \div LimbBase]

wrapping_add(a, b) == AddCarry(a, b).sum

\* u64::checked_add(..).is_none(): the sum overflows 64 bits.
add_overflows(a, b) == AddCarry(a, b).carry # 0

BitNot(x) == [i \in 1..4 |-> LimbBase - 1 - x[i]]

\* Two's-complement negation of the bit pattern.
wrapping_neg(x) == wrapping_add(BitNot(x), U(1))

\* An i64 is a sign and a magnitude (a u64 no larger than 2^63).
\* `x as i64`: the same bits read as a signed number.
as_i64(x) ==
    IF x[1] >= HalfLimb
    THEN [neg |-> TRUE, mag |-> wrapping_neg(x)]
    ELSE [neg |-> FALSE, mag |-> x]

\* `s as u64`: the bits of the signed number.
as_u64(s) == IF s.neg THEN wrapping_neg(s.mag) ELSE s.mag

\* Unary minus on i64 (i64::MIN has no negation: the release build wraps).
i64_neg(s) ==
    IF s.mag = U(0) THEN s
    ELSE IF s.neg /\ s.mag = Hex(HalfLimb, 0, 0, 0) THEN s
    ELSE [neg |-> ~s.neg, mag |-> s.mag]

i64_ge0(s) == ~s.neg

-----------------------------------------------------------------------------
(* Errno codes and encoding (kernel/src/syscall/errno.rs)                  *)

ENOENT == 2

EBADF == 9

ENOMEM == 12

EFAULT == 14

EINVAL == 22

ENOTDIR == 20

EISDIR == 21

EMFILE == 24

ENOSYS == 38

EHWPOISON == 133

\* Mutant: the code is returned without the negation.
err_not_negated(errno) == U(errno)

\* Encode errno as a negative return value.
err(errno) == as_u64(i64_neg(as_i64(U(errno))))

-----------------------------------------------------------------------------
(* User-side decoding (bulldog-syscall/src/errno.rs, raw.rs)               *)

from_raw(raw) ==
    IF ~raw.neg /\ IsSmall(raw.mag) /\ Val(raw.mag) = 9 THEN <<"EBADF">>
    ELSE IF ~raw.neg /\ IsSmall(raw.mag) /\ Val(raw.mag) = 14 THEN <<"EFAULT">>
    ELSE IF ~raw.neg /\ IsSmall(raw.mag) /\ Val(raw.mag) = 22 THEN <<"EINVAL">>
    ELSE IF ~raw.neg /\ IsSmall(raw.mag) /\ Val(raw.mag) = 38 THEN <<"ENOSYS">>
    ELSE IF ~raw.neg /\ IsSmall(raw.mag) /\ Val(raw.mag) = 12 THEN <<"ENOMEM">>
    ELSE IF ~raw.neg /\ IsSmall(raw.mag) /\ Val(raw.mag) = 24 THEN <<"EMFILE">>
    ELSE <<"Unknown", raw>>

decode_ret(raw) ==
    LET signed == as_i64(raw) IN
    IF i64_ge0(signed)
    THEN [ok |-> TRUE, val |-> as_u64(signed)]
    ELSE [ok |-> FALSE, val |-> from_raw(i64_neg(signed))]

-----------------------------------------------------------------------------
(* User memory and the pointer guard (kernel/src/syscall/stubs.rs)         *)

PATH_FOO == Hex(0, 0, 64, 4096)

PATH_EMPTY == Hex(0, 0, 64, 8192)

PATH_LONG == Hex(0, 0, 64, 12288)

PATH_BADUTF == Hex(0, 0, 64, 16384)

\* "/vfs/etc/hostname": the file vfs_init seeds, under the VFS prefix.
PATH_VFS_HOSTNAME == Hex(0, 0, 64, 20480)

\* "/vfs/etc/missing": under the VFS prefix, not in the tree.
PATH_VFS_MISSING == Hex(0, 0, 64, 24576)

USER_BUF == Hex(0, 128, 0, 4096)

KERNEL_BUF == Hex(65535, 32768, 16, 0)

\* What is mapped at each address the model passes to a syscall: the bytes
\* found there (prefix), followed by the byte `fill` repeated.
UserMem ==
    (PATH_FOO :> [prefix |-> <<102, 111, 111, 46, 116, 120, 116>>, fill |-> 0]) @@
    (PATH_EMPTY :> [prefix |-> <<>>, fill |-> 0]) @@
    (PATH_LONG :> [prefix |-> <<>>, fill |-> 97]) @@
    (PATH_BADUTF :> [prefix |-> <<47, 255>>, fill |-> 0]) @@
    (PATH_VFS_HOSTNAME :>
        [prefix |-> <<47, 118, 102, 115, 47, 101, 116, 99, 47,
                      104, 111, 115, 116, 110, 97, 109, 101>>, fill |-> 0]) @@
    (PATH_VFS_MISSING :>
        [prefix |-> <<47, 118, 102, 115, 47, 101, 116, 99, 47,
                      109, 105, 115, 115, 105, 110, 103>>, fill |-> 0]) @@
    (USER_BUF :> [prefix |-> <<72, 105>>, fill |-> 0]) @@
    (KERNEL_BUF :> [prefix |-> <<72, 101, 108, 108, 111>>, fill |-> 0])

ByteAt(region, i) ==
    IF i < Len(region.prefix) THEN region.prefix[i + 1] ELSE region.fill

USER_SPLIT == Hex(0, 32767, 65535, 65535)

\* A non-canonical address: bit 47 set, bits 48..63 clear.
NON_CANONICAL == Hex(0, 32768, 0, 0)

\* Mutant: the split address itself is rejected.
is_user_ptr_below_split(ptr) ==
    IF ptr = U(0) THEN FALSE
    ELSE LET canonical == (as_u64(as_i64(ptr)) = ptr)
         IN  canonical /\ ULt(ptr, USER_SPLIT)

\* Minimal user-pointer guard: canonical, lower-half, non-null.
is_user_ptr(ptr) ==
    IF ptr = U(0) THEN FALSE
    ELSE LET canonical == (as_u64(as_i64(ptr)) = ptr)
         IN  canonical /\ ULe(ptr, USER_SPLIT)

SCRATCH_LEN == 256

\* The copy loop of copy_cstr_from_user, started at index i: the index at
\* which it stops (the first NUL byte, or n when the buffer is exhausted).
cstr_scan(region, i, n) ==
    LET stops == {j \in i..n : j = n \/ ByteAt(region, j) = 0}
    IN  CHOOSE j \in stops : \A k \in stops : j <= k

IsCont(b, lo, hi) == lo <= b /\ b <= hi

RECURSIVE from_utf8(_)
\* core::str::from_utf8 as a predicate: whether the bytes are well-formed UTF-8.
from_utf8(s) ==
    IF s = <<>> THEN TRUE
    ELSE LET b == s[1]
             n == Len(s)
         IN  IF b < 128 THEN from_utf8(Tail(s))
             ELSE IF 194 <= b /\ b <= 223
                  THEN n >= 2 /\ IsCont(s[2], 128, 191)
                       /\ from_utf8(SubSeq(s, 3, n))
             ELSE IF 224 <= b /\ b <= 239
                  THEN n >= 3
                       /\ IsCont(s[2], IF b = 224 THEN 160 ELSE 128,
                                       IF b = 237 THEN 159 ELSE 191)
                       /\ IsCont(s[3], 128, 191)
                       /\ from_utf8(SubSeq(s, 4, n))
             ELSE IF 240 <= b /\ b <= 244
                  THEN n >= 4
                       /\ IsCont(s[2], IF b = 240 THEN 144 ELSE 128,
                                       IF b = 244 THEN 143 ELSE 191)
                       /\ IsCont(s[3], 128, 191)
                       /\ IsCont(s[4], 128, 191)
                       /\ from_utf8(SubSeq(s, 5, n))
             ELSE FALSE

\* Copy a NUL-terminated C string from user memory into a scratch buffer of
\* `n` bytes.
copy_cstr_from_user(path_ptr, n) ==
    IF ~is_user_ptr(path_ptr) THEN [ok |-> FALSE, str |-> <<>>]
    ELSE LET region == UserMem[path_ptr]
             i == cstr_scan(region, 0, n)
             bytes == [k \in 1..i |-> ByteAt(region, k - 1)]
         IN  IF i = n THEN [ok |-> FALSE, str |-> <<>>]
             ELSE IF from_utf8(bytes) THEN [ok |-> TRUE, str |-> bytes]
             ELSE [ok |-> FALSE, str |-> <<>>]

-----------------------------------------------------------------------------
(* File-like objects (kernel/src/syscall/filelike.rs, stubs.rs)            *)

\* struct Stdout: the console sink, which holds no data.
Stdout == [kind |-> "Stdout", data |-> <<>>, offset |-> 0]

\* Mutant: the default read reports end of file, 0 bytes read.
FileLike_read_eof(file, n) == [ok |-> TRUE, val |-> 0, file |-> file, bytes |-> <<>>]

\* FileLike::read default: EBADF, nothing produced, the object as it was.
FileLike_read(file, n) == [ok |-> FALSE, val |-> EBADF, file |-> file, bytes |-> <<>>]

\* Stdout::write: logs the bytes and reports all of them written.
Stdout_write(n) == [ok |-> TRUE, val |-> n]

\* FileLike::close default: success.
FileLike_close(file) == [ok |-> TRUE, val |-> 0]

\* MemFile::close: success, the file as it was.
MemFile_close(f) == [ok |-> TRUE, val |-> 0]

\* FileOps::read, FileOps::write and FileOps::close as the trait defines
\* them, for a backend that overrides none of them: ENOSYS.
FileOps_read(f, k) == [ok |-> FALSE, val |-> ENOSYS, file |-> f, bytes |-> <<>>]

FileOps_write(f, buf) == [ok |-> FALSE, val |-> ENOSYS, file |-> f]

FileOps_close(f) == [ok |-> FALSE, val |-> ENOSYS]

\* A VfsFileLike over a FileOps object that keeps the trait's defaults.
VfsFileLike_default == [kind |-> "VfsFileLike(dyn FileOps)", data |-> <<>>, offset |-> 0]

\* VfsFileLike::close: the close of the FileOps object it wraps.
VfsFileLike_close(file) ==
    IF file.kind = "VfsFileLike"
    THEN MemFile_close([data |-> file.data, offset |-> file.offset])
    ELSE FileOps_close(file)

\* entry.file.close(): the close of whichever object the entry holds.
file_close(file) ==
    IF file.kind = "Stdout" THEN FileLike_close(file) ELSE VfsFileLike_close(file)

-----------------------------------------------------------------------------
(* The file-descriptor table (kernel/src/syscall/fd.rs)                    *)

MAX_FD == 64

None == "None"

\* Option<FdTable>: no table, or the table.
NoTable == <<>>

Some(table) == <<table>>

Unwrap(t) == t[1]

\* FdEntry { file, flags, offset }
FdEntry(file) == [file |-> file, flags |-> 0, offset |-> 0]

EmptyTable == [k \in {} |-> FdEntry(Stdout)]

\* BTreeMap::insert
Insert(table, fd, entry) ==
    [k \in DOMAIN table \cup {fd} |-> IF k = fd THEN entry ELSE table[k]]

\* BTreeMap::remove
Remove(table, fd) == [k \in DOMAIN table \ {fd} |-> table[k]]

\* BTreeMap::contains_key for a u64 key.
contains_key(table, fd) == IsSmall(fd) /\ Val(fd) \in DOMAIN table

\* The table init_fd_table_with_std leaves: stdout on fd 1.  An already
\* initialised table is left as it is.
init_fd_table_with_std(t) ==
    IF t # NoTable THEN t ELSE Some(Insert(EmptyTable, 1, FdEntry(Stdout)))

\* Mutant: the scan ignores gaps and takes the number after the highest
\* descriptor in use.
scan_free_append(table, fd) ==
    LET used == {k \in DOMAIN table : k >= fd}
    IN  IF used = {} THEN fd
        ELSE (CHOOSE k \in used : \A j \in used : j <= k) + 1

RECURSIVE scan_free(_, _)
\* The allocation loop: from fd upwards, the first number not in the table,
\* or MAX_FD + 1 when the scan passes MAX_FD.
scan_free(table, fd) ==
    IF fd <= MAX_FD /\ fd \in DOMAIN table THEN scan_free(table, fd + 1) ELSE fd

\* What a handler hands back: the raw return value, the table it leaves,
\* whether it panicked, the user addresses it validated or dereferenced, the
\* backend operations it invoked and the byte strings it stored to user memory
\* (copy_to_user calls, as <<address, bytes>>).
Ret(ret, table) ==
    [ret |-> ret, table |-> table, panic |-> FALSE, probed |-> {}, calls |-> <<>>,
     copied |-> <<>>]

Panic(table) ==
    [ret |-> U(0), table |-> table, panic |-> TRUE, probed |-> {}, calls |-> <<>>,
     copied |-> <<>>]

Probing(r, addrs) == [r EXCEPT !.probed = @ \cup addrs]

Calling(r, call) == [r EXCEPT !.calls = Append(@, call)]

\* Allocate the lowest available FD >= 3.
fd_alloc(t, entry) ==
    IF t = NoTable THEN Panic(t)
    ELSE LET fd == scan_free(Unwrap(t), 3)
         IN  IF fd <= MAX_FD THEN Ret(U(fd), Some(Insert(Unwrap(t), fd, entry)))
             ELSE Ret(err(EMFILE), t)

\* Mutant: the entry is removed only when the backend's close succeeds.
fd_close_keeps_on_error(t, fd) ==
    IF ULt(fd, U(3)) THEN Ret(err(EBADF), t)
    ELSE IF t = NoTable THEN Panic(t)
    ELSE IF contains_key(Unwrap(t), fd)
         THEN LET c == file_close(Unwrap(t)[Val(fd)].file)
                  r == Ret(IF c.ok THEN U(0) ELSE err(c.val),
                           IF c.ok THEN Some(Remove(Unwrap(t), Val(fd))) ELSE t)
              IN  Calling(r, <<"close", Val(fd)>>)
         ELSE Ret(err(EBADF), t)

\* Close an FD and remove it from the table.
fd_close(t, fd) ==
    IF ULt(fd, U(3)) THEN Ret(err(EBADF), t)
    ELSE IF t = NoTable THEN Panic(t)
    ELSE IF contains_key(Unwrap(t), fd)
         THEN LET c == file_close(Unwrap(t)[Val(fd)].file)
                  r == Ret(IF c.ok THEN U(0) ELSE err(c.val),
                           Some(Remove(Unwrap(t), Val(fd))))
              IN  Calling(r, <<"close", Val(fd)>>)
         ELSE Ret(err(EBADF), t)

\* Clear the FD table: the table is dropped, not emptied.
fd_clear_all(t) == NoTable

-----------------------------------------------------------------------------
(* Syscall handlers (kernel/src/syscall/{open,read,write,close,exit}.rs)   *)

OPEN_BAD_FLAGS == U32_MAX

Min(a, b) == IF a <= b THEN a ELSE b

\* Mutant: the scan stops one short, so the last slot is handed out again
\* instead of EMFILE.
open_alloc_no_limit(t) ==
    IF t = NoTable THEN Panic(t)
    ELSE LET fd == Min(scan_free(Unwrap(t), 3), MAX_FD)
         IN  Ret(U(fd), Some(Insert(Unwrap(t), fd, FdEntry(Stdout))))

\* Mutant: the scan starts at 0, handing out the reserved descriptors.
open_alloc_from_zero(t) ==
    IF t = NoTable THEN Panic(t)
    ELSE LET fd == scan_free(Unwrap(t), 0)
         IN  IF fd > MAX_FD THEN Ret(err(EMFILE), t)
             ELSE Ret(U(fd), Some(Insert(Unwrap(t), fd, FdEntry(Stdout))))

\* The descriptor allocation of sys_open: lock the table, find the lowest
\* free fd in [3, MAX_FD], insert a new Stdout object there.
open_alloc(t) ==
    IF t = NoTable THEN Panic(t)
    ELSE LET fd == scan_free(Unwrap(t), 3)
         IN  IF fd > MAX_FD THEN Ret(err(EMFILE), t)
             ELSE Ret(U(fd), Some(Insert(Unwrap(t), fd, FdEntry(Stdout))))

\* Mutant: the flags value is not inspected.
sys_open_ignores_flags(t, path_ptr, flags, mode) ==
    IF path_ptr = U(0) THEN Ret(err(ENOENT), t)
    ELSE LET c == copy_cstr_from_user(path_ptr, SCRATCH_LEN)
             probed == {path_ptr}
         IN  IF ~c.ok THEN Probing(Ret(err(EFAULT), t), probed)
             ELSE IF c.str = <<>> THEN Probing(Ret(err(EINVAL), t), probed)
             ELSE Probing(open_alloc(t), probed)

\* Mutant: a path that cannot be copied in is reported as EINVAL.
sys_open_fault_as_einval(t, path_ptr, flags, mode) ==
    IF path_ptr = U(0) THEN Ret(err(ENOENT), t)
    ELSE LET c == copy_cstr_from_user(path_ptr, SCRATCH_LEN)
             probed == {path_ptr}
         IN  IF ~c.ok THEN Probing(Ret(err(EINVAL), t), probed)
             ELSE IF c.str = <<>> THEN Probing(Ret(err(EINVAL), t), probed)
             ELSE IF flags = OPEN_BAD_FLAGS THEN Probing(Ret(err(EINVAL), t), probed)
             ELSE Probing(open_alloc(t), probed)

\* sys_open(path_ptr, flags, mode)
sys_open(t, path_ptr, flags, mode) ==
    IF path_ptr = U(0) THEN Ret(err(ENOENT), t)
    ELSE LET c == copy_cstr_from_user(path_ptr, SCRATCH_LEN)
             probed == {path_ptr}
         IN  IF ~c.ok THEN Probing(Ret(err(EFAULT), t), probed)
             ELSE IF c.str = <<>> THEN Probing(Ret(err(EINVAL), t), probed)
             ELSE IF flags = OPEN_BAD_FLAGS THEN Probing(Ret(err(EINVAL), t), probed)
             ELSE Probing(open_alloc(t), probed)

\* min(len as usize, cap) for a u64 len and a small cap.
MinLen(len, cap) == IF IsSmall(len) THEN Min(Val(len), cap) ELSE cap

Max(a, b) == IF a >= b THEN a ELSE b

\* "bulldog\n", the content vfs_init gives /etc/hostname.
HOSTNAME_BYTES == <<98, 117, 108, 108, 100, 111, 103, 10>>

\* MemFile::new(initial)
MemFile_new(initial) == [data |-> initial, offset |-> 0]

\* Mutant: a read advances the offset by the length of the buffer, not by
\* the count of bytes it copied.
MemFile_read_advances_by_len(f, k) ==
    IF f.offset >= Len(f.data) THEN [ok |-> TRUE, val |-> 0, file |-> f, bytes |-> <<>>]
    ELSE LET count == Min(Len(f.data) - f.offset, k)
         IN  [ok |-> TRUE, val |-> count,
              file |-> [f EXCEPT !.offset = f.offset + k],
              bytes |-> SubSeq(f.data, f.offset + 1, f.offset + count)]

\* Mutant: a read hands out the bytes but leaves the offset where it was.
MemFile_read_no_advance(f, k) ==
    IF f.offset >= Len(f.data) THEN [ok |-> TRUE, val |-> 0, file |-> f, bytes |-> <<>>]
    ELSE LET count == Min(Len(f.data) - f.offset, k)
         IN  [ok |-> TRUE, val |-> count, file |-> f,
              bytes |-> SubSeq(f.data, f.offset + 1, f.offset + count)]

\* MemFile::read into a buffer of k bytes.
MemFile_read(f, k) ==
    IF f.offset >= Len(f.data)
    THEN [ok |-> TRUE, val |-> 0, file |-> f, bytes |-> <<>>]
    ELSE LET count == Min(Len(f.data) - f.offset, k)
         IN  [ok |-> TRUE, val |-> count,
              file |-> [f EXCEPT !.offset = f.offset + count],
              bytes |-> SubSeq(f.data, f.offset + 1, f.offset + count)]

\* Mutant: the store is resized but the bytes of the buffer are not copied
\* into it.
MemFile_write_zero_fills(f, buf) ==
    LET n == Len(buf)
        size == Max(Len(f.data), f.offset + n)
        data == [i \in 1..size |-> IF i <= Len(f.data) THEN f.data[i] ELSE 0]
    IN  [ok |-> TRUE, val |-> n, file |-> [data |-> data, offset |-> f.offset + n]]

\* MemFile::write of the bytes buf.
MemFile_write(f, buf) ==
    LET n == Len(buf)
        size == Max(Len(f.data), f.offset + n)
        data == [i \in 1..size |->
                    IF f.offset < i /\ i <= f.offset + n THEN buf[i - f.offset]
                    ELSE IF i <= Len(f.data) THEN f.data[i]
                    ELSE 0]
    IN  [ok |-> TRUE, val |-> n, file |-> [data |-> data, offset |-> f.offset + n]]

\* VfsFileLike::new(inner): the adapter over a file object of the VFS; here
\* the object is a MemFile the adapter alone holds.
VfsFileLike_new(inner) ==
    [kind |-> "VfsFileLike", data |-> inner.data, offset |-> inner.offset]

\* The MemFile behind the adapter.
VfsFileLike_inner(file) == [data |-> file.data, offset |-> file.offset]

\* VfsFileLike::read: self.inner.lock().read(buf)
VfsFileLike_read(file, k) ==
    IF file.kind = "VfsFileLike"
    THEN LET r == MemFile_read(VfsFileLike_inner(file), k)
         IN  [ok |-> r.ok, val |-> r.val, file |-> VfsFileLike_new(r.file),
              bytes |-> r.bytes]
    ELSE FileOps_read(file, k)

\* VfsFileLike::write: self.inner.lock().write(buf)
VfsFileLike_write(file, buf) ==
    IF file.kind = "VfsFileLike"
    THEN LET r == MemFile_write(VfsFileLike_inner(file), buf)
         IN  [ok |-> r.ok, val |-> r.val, file |-> VfsFileLike_new(r.file)]
    ELSE FileOps_write(file, buf)

\* obj.read(&mut scratch[..k]) on the descriptor's file object.
file_read(file, k) ==
    IF file.kind = "Stdout" THEN FileLike_read(file, k) ELSE VfsFileLike_read(file, k)

\* file.write(slice), the slice being the n bytes of user memory at region.
file_write(file, region, n) ==
    IF file.kind = "Stdout"
    THEN LET w == Stdout_write(n) IN [ok |-> w.ok, val |-> w.val, file |-> file]
    ELSE VfsFileLike_write(file, [i \in 1..n |-> ByteAt(region, i - 1)])

\* Mutant: the backend is read before the buffer address is validated.
sys_read_reads_before_guard(t, fd, buf_ptr, len) ==
    IF len = U(0) THEN Ret(U(0), t)
    ELSE IF t = NoTable THEN Panic(t)
    ELSE IF contains_key(Unwrap(t), fd)
         THEN LET slice_len == MinLen(len, SCRATCH_LEN)
                  obj == Unwrap(t)[Val(fd)]
                  n == file_read(obj.file, slice_len)
                  t2 == Some(Insert(Unwrap(t), Val(fd), [obj EXCEPT !.file = n.file]))
                  r == Ret(IF ~is_user_ptr(buf_ptr) THEN err(EFAULT)
                           ELSE IF n.ok THEN U(n.val) ELSE err(n.val), t2)
              IN  Calling(Probing(r, {buf_ptr}), <<"read", Val(fd), slice_len>>)
         ELSE Probing(Ret(err(EBADF), t), {buf_ptr})

\* Mutant: the buffer is validated before the zero-length short-circuit.
sys_read_guard_first(t, fd, buf_ptr, len) ==
    IF ~is_user_ptr(buf_ptr) THEN Probing(Ret(err(EFAULT), t), {buf_ptr})
    ELSE IF len = U(0) THEN Probing(Ret(U(0), t), {buf_ptr})
    ELSE IF t = NoTable THEN Probing(Panic(t), {buf_ptr})
    ELSE IF contains_key(Unwrap(t), fd)
         THEN Calling(Probing(Ret(err(EBADF), t), {buf_ptr}), <<"read", Val(fd), 0>>)
         ELSE Probing(Ret(err(EBADF), t), {buf_ptr})

\* sys_read(fd, buf_ptr, len)
sys_read(t, fd, buf_ptr, len) ==
    IF len = U(0) THEN Ret(U(0), t)
    ELSE IF ~is_user_ptr(buf_ptr) THEN Probing(Ret(err(EFAULT), t), {buf_ptr})
    ELSE IF t = NoTable THEN Probing(Panic(t), {buf_ptr})
    ELSE IF contains_key(Unwrap(t), fd)
         THEN LET slice_len == MinLen(len, SCRATCH_LEN)
                  obj == Unwrap(t)[Val(fd)]
                  n == file_read(obj.file, slice_len)
                  t2 == Some(Insert(Unwrap(t), Val(fd), [obj EXCEPT !.file = n.file]))
                  r == Ret(IF n.ok THEN U(n.val) ELSE err(n.val), t2)
              IN  Calling(Probing(r, {buf_ptr}), <<"read", Val(fd), slice_len>>)
         ELSE Probing(Ret(err(EBADF), t), {buf_ptr})

MAX_WRITE == 4096

HIGHER_HALF_BASE == Hex(0, 128, 0, 0)

\* The copy_from_user of write.rs: whether a slice is produced.
write_copy_from_user(ptr, len) ==
    IF len = 0 THEN TRUE
    ELSE IF ptr = U(0) THEN FALSE
    ELSE IF ULt(ptr, HIGHER_HALF_BASE) \/ add_overflows(ptr, U(len)) THEN FALSE
    ELSE TRUE

\* Mutant: a buffer range that wraps around is classified as EINVAL.
sys_write_overflow_einval(t, fd, buf_ptr, len_u64) ==
    IF len_u64 = U(0) THEN Ret(U(0), t)
    ELSE IF ULt(U(MAX_WRITE), len_u64) THEN Ret(err(EINVAL), t)
    ELSE IF add_overflows(buf_ptr, len_u64) THEN Ret(err(EINVAL), t)
    ELSE IF t = NoTable THEN Panic(t)
    ELSE IF fd = U(0) THEN Ret(err(EBADF), t)
    ELSE IF ~contains_key(Unwrap(t), fd) THEN Ret(err(EBADF), t)
    ELSE IF ~write_copy_from_user(buf_ptr, Val(len_u64))
         THEN Probing(Ret(err(EFAULT), t), {buf_ptr})
    ELSE LET entry == Unwrap(t)[Val(fd)]
             wrote == file_write(entry.file, UserMem[buf_ptr], Val(len_u64))
             t2 == Some(Insert(Unwrap(t), Val(fd), [entry EXCEPT !.file = wrote.file]))
             r == Ret(IF wrote.ok THEN U(wrote.val) ELSE err(wrote.val), t2)
         IN  Calling(Probing(r, {buf_ptr}), <<"write", Val(fd), Val(len_u64)>>)

\* Mutant: the stdin check is dropped, so fd 0 is looked up like any other
\* descriptor and the unknown-fd path is reached after the buffer copy.
sys_write_no_stdin_check(t, fd, buf_ptr, len_u64) ==
    IF len_u64 = U(0) THEN Ret(U(0), t)
    ELSE IF ULt(U(MAX_WRITE), len_u64) THEN Ret(err(EINVAL), t)
    ELSE IF add_overflows(buf_ptr, len_u64) THEN Ret(err(EFAULT), t)
    ELSE IF t = NoTable THEN Panic(t)
    ELSE IF ~write_copy_from_user(buf_ptr, Val(len_u64))
         THEN Probing(Ret(err(EFAULT), t), {buf_ptr})
    ELSE IF ~contains_key(Unwrap(t), fd) THEN Probing(Ret(err(EBADF), t), {buf_ptr})
    ELSE Calling(Probing(Ret(U(Val(len_u64)), t), {buf_ptr}),
                 <<"write", Val(fd), Val(len_u64)>>)

\* sys_write(fd, buf_ptr, len)
sys_write(t, fd, buf_ptr, len_u64) ==
    IF len_u64 = U(0) THEN Ret(U(0), t)
    ELSE IF ULt(U(MAX_WRITE), len_u64) THEN Ret(err(EINVAL), t)
    ELSE IF add_overflows(buf_ptr, len_u64) THEN Ret(err(EFAULT), t)
    ELSE IF t = NoTable THEN Panic(t)
    ELSE IF fd = U(0) THEN Ret(err(EBADF), t)
    ELSE IF ~contains_key(Unwrap(t), fd) THEN Ret(err(EBADF), t)
    ELSE IF ~write_copy_from_user(buf_ptr, Val(len_u64))
         THEN Probing(Ret(err(EFAULT), t), {buf_ptr})
    ELSE LET entry == Unwrap(t)[Val(fd)]
             wrote == file_write(entry.file, UserMem[buf_ptr], Val(len_u64))
             t2 == Some(Insert(Unwrap(t), Val(fd), [entry EXCEPT !.file = wrote.file]))
             r == Ret(IF wrote.ok THEN U(wrote.val) ELSE err(wrote.val), t2)
         IN  Calling(Probing(r, {buf_ptr}), <<"write", Val(fd), Val(len_u64)>>)

\* Mutant: close reports success but leaves the entry in the table.
sys_close_keeps_entry(t, fd) ==
    IF t = NoTable THEN Panic(t)
    ELSE IF ULt(fd, U(3)) THEN Ret(err(EBADF), t)
    ELSE IF contains_key(Unwrap(t), fd) THEN Ret(U(0), t)
    ELSE Ret(err(EBADF), t)

\* Mutant: close without the check for the reserved descriptors.
sys_close_any_fd(t, fd) ==
    IF t = NoTable THEN Panic(t)
    ELSE IF contains_key(Unwrap(t), fd) THEN Ret(U(0), Some(Remove(Unwrap(t), Val(fd))))
    ELSE Ret(err(EBADF), t)

\* sys_close(fd)
sys_close(t, fd) ==
    IF t = NoTable THEN Panic(t)
    ELSE IF ULt(fd, U(3)) THEN Ret(err(EBADF), t)
    ELSE IF contains_key(Unwrap(t), fd) THEN Ret(U(0), Some(Remove(Unwrap(t), Val(fd))))
    ELSE Ret(err(EBADF), t)

\* Mutant: exit closes the descriptors from 3 up and keeps the standard ones.
sys_exit_keeps_std(t, code) ==
    IF t = NoTable THEN Panic(t)
    ELSE Ret(U(0), Some([k \in DOMAIN Unwrap(t) \cap (0..2) |-> Unwrap(t)[k]]))

\* sys_exit(code)
sys_exit(t, code) ==
    IF t = NoTable THEN Panic(t) ELSE Ret(U(0), Some(EmptyTable))

-----------------------------------------------------------------------------
(* Allocator pass-throughs (kernel/src/syscall/{alloc,free}.rs)            *)

\* The heap is an external collaborator: alloc(layout) yields a block or null.
HEAP_BLOCK == Hex(0, 17476, 17476, 0)

AllocOutcomes == {HEAP_BLOCK, U(0)}

ISIZE_MAX == Hex(32767, 65535, 65535, 65535)

\* Layout::from_size_align(size, 8) succeeds iff size rounded up to 8 fits isize.
layout_ok(size) == ULe(size, wrapping_add(ISIZE_MAX, wrapping_neg(U(7))))

\* sys_alloc through its trampoline; ptr is what the allocator hands back.
sys_alloc_trampoline(t, ptr, size) ==
    IF size = U(0) THEN Ret(err(EINVAL), t)
    ELSE IF ~layout_ok(size) THEN Ret(err(EINVAL), t)
    ELSE IF ptr = U(0) THEN Ret(err(ENOMEM), t)
    ELSE Ret(ptr, t)

\* sys_free through its trampoline.
sys_free_trampoline(t, ptr, size) ==
    IF ptr = U(0) \/ size = U(0) THEN Ret(err(EINVAL), t)
    ELSE IF ~layout_ok(size) THEN Ret(err(EINVAL), t)
    ELSE Ret(U(0), t)

-----------------------------------------------------------------------------
(* Syscall table and dispatcher (kernel/src/syscall/{table,dispatcher}.rs) *)

SYS_WRITE == 1

SYS_EXIT == 2

SYS_OPEN == 3

SYS_READ == 4

SYS_ALLOC == 5

SYS_FREE == 6

SYS_CLOSE == 7

SYSCALL_TABLE_SIZE == 512

\* Mutant: the close handler is not registered.
init_table_without_close ==
    [n \in 0..(SYSCALL_TABLE_SIZE - 1) |->
        IF n = SYS_WRITE THEN "sys_write"
        ELSE IF n = SYS_EXIT THEN "sys_exit_trampoline"
        ELSE IF n = SYS_OPEN THEN "sys_open"
        ELSE IF n = SYS_READ THEN "sys_read"
        ELSE IF n = SYS_ALLOC THEN "sys_alloc_trampoline"
        ELSE IF n = SYS_FREE THEN "sys_free_trampoline"
        ELSE None]

init_table ==
    [n \in 0..(SYSCALL_TABLE_SIZE - 1) |->
        IF n = SYS_WRITE THEN "sys_write"
        ELSE IF n = SYS_EXIT THEN "sys_exit_trampoline"
        ELSE IF n = SYS_OPEN THEN "sys_open"
        ELSE IF n = SYS_READ THEN "sys_read"
        ELSE IF n = SYS_ALLOC THEN "sys_alloc_trampoline"
        ELSE IF n = SYS_FREE THEN "sys_free_trampoline"
        ELSE IF n = SYS_CLOSE THEN "sys_close_trampoline"
        ELSE None]

\* Bounds-checked read of the table.
lookup(num) ==
    IF ULt(num, U(SYSCALL_TABLE_SIZE)) THEN init_table[Val(num)] ELSE None

\* heap is what the allocator would hand back if this call reaches it.
dispatch(t, heap, num, arg0, arg1, arg2) ==
    LET fun == lookup(num) IN
    IF fun = None THEN Ret(err(ENOSYS), t)
    ELSE IF fun = "sys_write" THEN sys_write(t, arg0, arg1, arg2)
    ELSE IF fun = "sys_exit_trampoline" THEN sys_exit(t, arg0)
    ELSE IF fun = "sys_open" THEN sys_open(t, arg0, arg1, arg2)
    ELSE IF fun = "sys_read" THEN sys_read(t, arg0, arg1, arg2)
    ELSE IF fun = "sys_alloc_trampoline" THEN sys_alloc_trampoline(t, heap, arg0)
    ELSE IF fun = "sys_free_trampoline" THEN sys_free_trampoline(t, arg0, arg1)
    ELSE sys_close(t, arg0)

-----------------------------------------------------------------------------
(* The VFS tree (kernel/src/vfs/{node,mount,ops,resolve}.rs)               *)

\* A path is a sequence of one-character strings.
Slash == "/"

RECURSIVE trim_start_matches(_)
\* str::trim_start_matches('/')
trim_start_matches(s) ==
    IF s # <<>> /\ Head(s) = Slash THEN trim_start_matches(Tail(s)) ELSE s

RECURSIVE trim_end_matches(_)
\* str::trim_end_matches('/')
trim_end_matches(s) ==
    IF s # <<>> /\ s[Len(s)] = Slash THEN trim_end_matches(SubSeq(s, 1, Len(s) - 1))
    ELSE s

\* str::trim_matches('/')
trim_matches(s) == trim_end_matches(trim_start_matches(s))

RECURSIVE split(_)
\* str::split('/'): the pieces between the slashes, empty pieces included.
split(s) ==
    IF \A i \in 1..Len(s) : s[i] # Slash THEN <<s>>
    ELSE LET i == CHOOSE k \in 1..Len(s) : s[k] = Slash /\ \A j \in 1..(k - 1) : s[j] # Slash
         IN  <<SubSeq(s, 1, i - 1)>> \o split(SubSeq(s, i + 1, Len(s)))

IsComponent(c) == c # <<>>

\* Normalize a path like "//foo/bar" to "/foo/bar".
normalize_path(path) == <<Slash>> \o trim_start_matches(path)

\* Split "/foo/bar" into <<"foo", "bar">>.
split_path(path) == SelectSeq(split(trim_matches(path)), IsComponent)

\* The file slot of a node that is not a File.
NoFile == MemFile_new(<<>>)

\* An empty BTreeMap<String, VfsNode>.
NoChildren == [name \in {} |-> NoFile]

\* VfsNode::Directory(children)
Directory(children) == [kind |-> "Directory", children |-> children, file |-> NoFile]

\* VfsNode::File(shared)
File(shared) == [kind |-> "File", children |-> NoChildren, file |-> shared]

\* BTreeMap::insert on the children of a directory: an entry of that name
\* is replaced, whatever it was.
Put(children, name, node) ==
    [n \in DOMAIN children \cup {name} |-> IF n = name THEN node ELSE children[n]]

\* Mutant: a missing entry is inserted as an empty file, which the walk then
\* fails to descend through.
entry_or_insert_file(children, comp) ==
    IF comp \in DOMAIN children THEN children[comp] ELSE File(NoFile)

\* Mutant: the entry is set to a fresh empty directory whatever was there.
entry_insert_fresh(children, comp) == Directory(NoChildren)

\* children.entry(comp).or_insert_with(|| Directory(BTreeMap::new())): the
\* node the walk moves to.
entry_or_insert(children, comp) ==
    IF comp \in DOMAIN children THEN children[comp] ELSE Directory(NoChildren)

\* MountPoint { path, root }
MountPoint(path, root) == [path |-> path, root |-> root]

\* MOUNT_TABLE before init_mount_table: an empty Vec.
NoMounts == <<>>

\* init_mount_table(): a single empty root directory, unless already there.
init_mount_table(mt) ==
    IF mt # NoMounts THEN mt ELSE <<MountPoint(<<Slash>>, Directory(NoChildren))>>

\* guard.iter().find(|m| m.path == "/"): the index of the root mount, 0 if
\* there is none.
find_root(mt) ==
    IF \E i \in 1..Len(mt) : mt[i].path = <<Slash>>
    THEN CHOOSE i \in 1..Len(mt) : mt[i].path = <<Slash>> /\ \A j \in 1..(i - 1) : mt[j].path # <<Slash>>
    ELSE 0

\* What a VFS operation hands back: Ok or Err(val), the mount table it leaves
\* and, for resolve_path, the FileOps object.
VfsOk(mt, file) == [ok |-> TRUE, val |-> 0, mt |-> mt, file |-> file]

VfsErr(errno, mt) == [ok |-> FALSE, val |-> errno, mt |-> mt, file |-> NoFile]

RECURSIVE mkdir_walk(_, _)
\* The loop of vfs_mkdir from `node` over the remaining components: what the
\* walk returns and the node as the walk leaves it.  The type of a node is
\* looked at only when the walk descends from it.
mkdir_walk(node, components) ==
    IF components = <<>> THEN [ok |-> TRUE, val |-> 0, node |-> node]
    ELSE IF node.kind = "Directory"
         THEN LET comp == Head(components)
                  sub == mkdir_walk(entry_or_insert(node.children, comp), Tail(components))
              IN  [ok |-> sub.ok, val |-> sub.val,
                   node |-> Directory(Put(node.children, comp, sub.node))]
    ELSE IF node.kind = "File" THEN [ok |-> FALSE, val |-> ENOTDIR, node |-> node]
    ELSE [ok |-> FALSE, val |-> ENOSYS, node |-> node]

\* Create a directory (and any missing parents) at `path`.
vfs_mkdir(mt, path) ==
    LET norm == normalize_path(path)
        root == find_root(mt)
    IN  IF norm = <<Slash>> THEN VfsOk(mt, NoFile)
        ELSE IF root = 0 THEN VfsErr(ENOENT, mt)
        ELSE LET w == mkdir_walk(mt[root].root, split_path(norm))
                 mt2 == [mt EXCEPT ![root].root = w.node]
             IN  IF w.ok THEN VfsOk(mt2, NoFile) ELSE VfsErr(w.val, mt2)

RECURSIVE create_walk(_, _, _, _)
\* The loop of vfs_create_file over the parent components, then the match on
\* the node it ends at: a directory takes the file under file_name.
create_walk(node, components, file_name, shared) ==
    IF components = <<>>
    THEN IF node.kind = "Directory"
         THEN [ok |-> TRUE, val |-> 0,
               node |-> Directory(Put(node.children, file_name, File(shared)))]
         ELSE IF node.kind = "File" THEN [ok |-> FALSE, val |-> ENOTDIR, node |-> node]
         ELSE [ok |-> FALSE, val |-> ENOSYS, node |-> node]
    ELSE IF node.kind = "Directory"
         THEN LET comp == Head(components)
                  sub == create_walk(entry_or_insert(node.children, comp),
                                     Tail(components), file_name, shared)
              IN  [ok |-> sub.ok, val |-> sub.val,
                   node |-> Directory(Put(node.children, comp, sub.node))]
    ELSE IF node.kind = "File" THEN [ok |-> FALSE, val |-> ENOTDIR, node |-> node]
    ELSE [ok |-> FALSE, val |-> ENOSYS, node |-> node]

\* Create or replace a file at `path`.
vfs_create_file(mt, path, file) ==
    LET norm == normalize_path(path)
        components == split_path(norm)
        root == find_root(mt)
    IN  IF norm = <<Slash>> THEN VfsErr(EISDIR, mt)
        ELSE IF components = <<>> THEN VfsErr(EINVAL, mt)
        ELSE IF root = 0 THEN VfsErr(ENOENT, mt)
        ELSE LET w == create_walk(mt[root].root,
                                  SubSeq(components, 1, Len(components) - 1),
                                  components[Len(components)], file)
                 mt2 == [mt EXCEPT ![root].root = w.node]
             IN  IF w.ok THEN VfsOk(mt2, NoFile) ELSE VfsErr(w.val, mt2)

RECURSIVE resolve_walk(_, _)
\* The loop of resolve_path, then its final return: a found node has no
\* FileOps object made from it.
resolve_walk(node, components) ==
    IF components = <<>> THEN ENOSYS
    ELSE IF node.kind = "Directory"
         THEN IF Head(components) \in DOMAIN node.children
              THEN resolve_walk(node.children[Head(components)], Tail(components))
              ELSE ENOENT
    ELSE ENOSYS

\* Resolve a path into a FileOps object.
resolve_path(mt, path) ==
    LET norm == normalize_path(path)
        root == find_root(mt)
    IN  IF root = 0 THEN VfsErr(ENOENT, mt)
        ELSE IF norm = <<Slash>> THEN VfsErr(ENOSYS, mt)
        ELSE VfsErr(resolve_walk(mt[root].root, split_path(norm)), mt)

\* The two spin locks: spin::Mutex MOUNT_TABLE and spin::Mutex FD_TABLE.
MOUNT_TABLE == "MOUNT_TABLE"

FD_TABLE == "FD_TABLE"

\* The steps of an operation, in program order: taking a lock (the guard is
\* bound), the work done under it, releasing it (the guard is dropped).
Lock(l) == <<"lock", l>>

Unlock(l) == <<"unlock", l>>

Body == <<"body", "none">>

\* vfs_mkdir returns for "/" before it locks the mount table.
vfs_mkdir_steps(path) ==
    IF normalize_path(path) = <<Slash>> THEN <<Body>>
    ELSE <<Lock(MOUNT_TABLE), Body, Unlock(MOUNT_TABLE)>>

\* vfs_create_file returns for "/" before it locks the mount table.
vfs_create_file_steps(path) ==
    IF normalize_path(path) = <<Slash>> THEN <<Body>>
    ELSE <<Lock(MOUNT_TABLE), Body, Unlock(MOUNT_TABLE)>>

\* resolve_path locks the mount table first and holds it until it returns.
resolve_path_steps == <<Lock(MOUNT_TABLE), Body, Unlock(MOUNT_TABLE)>>

init_mount_table_steps == <<Lock(MOUNT_TABLE), Body, Unlock(MOUNT_TABLE)>>

\* Mutant: open resolves the path under the mount-table lock and allocates
\* the descriptor before that lock is released.
sys_open_steps_nested(path_ptr, flags) ==
    <<Lock(MOUNT_TABLE), Lock(FD_TABLE), Body, Unlock(FD_TABLE), Unlock(MOUNT_TABLE)>>

\* sys_open validates the path and the flags without a lock, then locks the
\* FD table for the allocation; the mount table is not consulted.
sys_open_steps(path_ptr, flags) ==
    LET c == copy_cstr_from_user(path_ptr, SCRATCH_LEN)
    IN  IF path_ptr = U(0) \/ ~c.ok \/ c.str = <<>> \/ flags = OPEN_BAD_FLAGS
        THEN <<Body>>
        ELSE <<Lock(FD_TABLE), Body, Unlock(FD_TABLE)>>

\* sys_close takes the FD-table guard on entry.
sys_close_steps == <<Lock(FD_TABLE), Body, Unlock(FD_TABLE)>>

\* sys_exit takes the FD-table guard on entry and holds it until it returns.
sys_exit_steps == <<Lock(FD_TABLE), Body, Unlock(FD_TABLE)>>

\* The kernel's control flow: the operation in progress, its arguments, the
\* steps still ahead of it, whether its body has run and what it returned.
CpuIdle ==
    [op |-> "idle", path |-> <<>>, file |-> NoFile, arg |-> U(0), steps |-> <<>>,
     done |-> FALSE, ret |-> [ok |-> TRUE, val |-> 0]]

Start(op, path, file, arg, steps) ==
    [op |-> op, path |-> path, file |-> file, arg |-> arg, steps |-> steps,
     done |-> FALSE, ret |-> [ok |-> TRUE, val |-> 0]]

\* The body has run and returned r.
Finished(c, r) == [c EXCEPT !.steps = Tail(@), !.done = TRUE, !.ret = [ok |-> r.ok, val |-> r.val]]

-----------------------------------------------------------------------------
(* The heap allocator (kernel/src/allocator/fixed_size_block.rs)           *)

\* Supported block sizes; each is also the alignment of its blocks.
BLOCK_SIZES == <<8, 16, 32, 64, 128, 256, 512, 1024, 2048, 4096>>

\* mem::size_of::<ListNode>(): one pointer, the word a free block starts with.
LIST_NODE_SIZE == 8

\* The alignment init gives the start of the heap.
INIT_ALIGN == 128

\* Layout { size, align }
Layout(size, align) == [size |-> size, align |-> align]

\* The least element of a non-empty set of numbers.
Lowest(S) == CHOOSE x \in S : \A y \in S : x <= y

\* Choose the free-list index for the layout: 0 when no size class fits.
list_index(layout) ==
    LET required_block_size == Max(layout.size, layout.align)
        fits == {i \in 1..Len(BLOCK_SIZES) : BLOCK_SIZES[i] >= required_block_size}
    IN  IF fits = {} THEN 0 ELSE Lowest(fits)

\* Return the index for the exact block size.
list_index_for(block_size) ==
    CHOOSE i \in 1..Len(BLOCK_SIZES) : BLOCK_SIZES[i] = block_size

\* Align addr up to align, a power of two.
align_up(addr, align) == ((addr + align - 1) \div align) * align

saturating_sub(a, b) == IF a >= b THEN a - b ELSE 0

\* The words of the region from..to that can hold a ListNode.
Words(from, to) == {a \in from..(to - 1) : a % LIST_NODE_SIZE = 0}

\* FixedSizeBlockAllocator::new(): every free list empty (0 is None), no
\* region, nothing written and nothing handed out.  `mem` is the word at each
\* address of the region, `fallback` the ranges the fallback allocator has
\* handed out, `live` the allocations not yet given back.
NoHeap ==
    [list_heads |-> [i \in 1..Len(BLOCK_SIZES) |-> 0], mem |-> <<>>, start |-> 0,
     end |-> 0, fallback |-> {}, live |-> {}]

RECURSIVE add_region_from(_, _, _, _)
\* The loop of add_region from `current`: each chunk of block_size bytes
\* becomes the head of the list of its size class, its first word holding
\* the previous head.
add_region_from(h, current, end, block_size) ==
    IF current + block_size <= end
    THEN LET index == list_index_for(block_size)
             h2 == [h EXCEPT !.mem[current] = h.list_heads[index],
                             !.list_heads[index] = current]
         IN  add_region_from(h2, current + block_size, end, block_size)
    ELSE h

\* Add a region of memory to a size-class free list.
add_region(h, heap_start, heap_size, block_size) ==
    add_region_from(h, align_up(heap_start, block_size), heap_start + heap_size, block_size)

RECURSIVE add_regions(_, _, _, _)
\* for &block_size in BLOCK_SIZES { self.add_region(..) }, from index i on.
add_regions(h, aligned_start, adjusted_size, i) ==
    IF i > Len(BLOCK_SIZES) THEN h
    ELSE add_regions(add_region(h, aligned_start, adjusted_size, BLOCK_SIZES[i]),
                     aligned_start, adjusted_size, i + 1)

\* FixedSizeBlockAllocator::init(heap_start, heap_size): the aligned region
\* goes to the fallback allocator, and the same region is then carved into
\* the free list of every size class.
init(h, heap_start, heap_size) ==
    LET aligned_start == align_up(heap_start, INIT_ALIGN)
        adjusted_size == saturating_sub(heap_size, saturating_sub(aligned_start, heap_start))
        span == Words(aligned_start, aligned_start + adjusted_size)
        h2 == [h EXCEPT !.start = aligned_start, !.end = aligned_start + adjusted_size,
                        !.mem = [a \in span |-> 0]]
    IN  add_regions(h2, aligned_start, adjusted_size, 1)

\* Two byte ranges, each given by its first address and its length, overlap.
Overlap(p, n, q, k) == p < q + k /\ q < p + n

\* fallback_alloc(layout): what the linked-list allocator can return, null
\* (0) or the start of an aligned range of its region that it has not handed
\* out itself; the range is then recorded as handed out by it.
fallback_alloc(h, layout) ==
    {[ptr |-> 0, heap |-> h]} \cup
    {[ptr |-> a, heap |-> [h EXCEPT !.fallback = @ \cup {<<a, layout.size>>}]] :
        a \in {b \in h.start..(h.end - layout.size) :
                  /\ b % layout.align = 0
                  /\ \A u \in h.fallback : ~Overlap(b, layout.size, u[1], u[2])}}

\* GlobalAlloc::alloc(layout): the outcomes, each the pointer returned and
\* the allocator it leaves.
alloc(h, layout) ==
    LET index == list_index(layout)
    IN  IF index # 0
        THEN IF h.list_heads[index] # 0
             THEN LET node == h.list_heads[index]
                  IN  {[ptr |-> node,
                        heap |-> [h EXCEPT !.list_heads[index] = h.mem[node],
                                           !.mem[node] = 0]]}
             ELSE fallback_alloc(h, Layout(BLOCK_SIZES[index], BLOCK_SIZES[index]))
        ELSE fallback_alloc(h, layout)

\* GlobalAlloc::dealloc(ptr, layout): the block is pushed onto the free list
\* of its size class, or given back to the fallback allocator.
dealloc(h, ptr, layout) ==
    LET index == list_index(layout)
    IN  IF index # 0
        THEN [h EXCEPT !.mem[ptr] = h.list_heads[index], !.list_heads[index] = ptr]
        ELSE [h EXCEPT !.fallback = {u \in @ : u[1] # ptr}]

-----------------------------------------------------------------------------
(* The tick counter and its watchdog (kernel/src/time.rs)                  *)

\* Watchdog::new(window, grace_checks, failure_threshold) at tick count t.
Watchdog_new(t, window, grace_checks, failure_threshold) ==
    [last_ticks |-> t, window |-> window, grace_left |-> grace_checks,
     consecutive_failures |-> 0, failure_threshold |-> failure_threshold]

\* Watchdog::check with get_ticks() = current: the watchdog it leaves and
\* whether it panicked.
Watchdog_check(wd, current) ==
    IF current < wd.last_ticks + wd.window THEN [wd |-> wd, panic |-> FALSE]
    ELSE IF current = wd.last_ticks
         THEN IF wd.grace_left > 0
              THEN [wd |-> [wd EXCEPT !.grace_left = @ - 1], panic |-> FALSE]
              ELSE [wd |-> [wd EXCEPT !.consecutive_failures = @ + 1],
                    panic |-> wd.consecutive_failures + 1 >= wd.failure_threshold]
    ELSE [wd |-> [wd EXCEPT !.last_ticks = current, !.consecutive_failures = 0],
          panic |-> FALSE]

\* TICKS before the first timer interrupt, the LAPIC timer running, and no
\* Watchdog constructed yet.
NoTimer ==
    [ticks |-> 0, alive |-> TRUE, made |-> FALSE, wd |-> Watchdog_new(0, 0, 0, 0),
     panic |-> FALSE]

\* The state of the VFS before vfs_init: no mount, no lock held, nothing
\* running, no MemFile under test; the heap and the timer not yet set up.
VfsCold ==
    /\ mountTable = NoMounts
    /\ held = {}
    /\ cpu = CpuIdle
    /\ memFile = NoFile
    /\ allocator = NoHeap
    /\ timer = NoTimer

-----------------------------------------------------------------------------------------------------------------------------------------------------
(* The booted kernel: kernel_init, then traps into the dispatcher          *)

\* Largest descriptor number (besides MAX_FD, MAX_FD + 1 and 99) passed to
\* close.
MaxCloseFd == 5

\* Largest descriptor number (besides 99) passed to read and write.
MaxRwFd == 4

CloseFds == {U(n) : n \in (0..MaxCloseFd) \cup {MAX_FD, MAX_FD + 1, 99}} \cup {U64_MAX}

RwFds == {U(n) : n \in (0..MaxRwFd) \cup {99}}

OpenPtrs ==
    {U(0), PATH_FOO, PATH_EMPTY, PATH_LONG, PATH_BADUTF, PATH_VFS_HOSTNAME, PATH_VFS_MISSING,
     NON_CANONICAL, KERNEL_BUF, U64_MAX}

OpenFlags == {U(0), OPEN_BAD_FLAGS}

BufPtrs == {U(0), USER_BUF, KERNEL_BUF, U64_MAX}

Lens == {U(0), U(8), U(MAX_WRITE), U(MAX_WRITE + 1), U32_MAX}

ExitCodes == {U(0), U(123), U64_MAX}

AllocSizes == {U(0), U(64), U64_MAX}

UnknownNums ==
    {U(0), U(8), U(9), U(500), U(SYSCALL_TABLE_SIZE - 1), U(SYSCALL_TABLE_SIZE),
     U(999), U(9999), U32_MAX, U64_MAX}

\* The trap frame when no syscall result is pending.
NoCall ==
    [op |-> "none", num |-> U(0), a0 |-> U(0), a1 |-> U(0), a2 |-> U(0),
     ret |-> U(0), panic |-> FALSE, probed |-> {}, calls |-> <<>>, copied |-> <<>>]

Idle == [kind |-> "idle"]

Init ==
    /\ pc = "boot"
    /\ fdTable = NoTable
    /\ last = NoCall
    /\ codec = Idle
    /\ VfsCold

\* kernel_init: the FD table is created before any trap is taken.
KernelInit ==
    /\ pc = "boot"
    /\ fdTable' = init_fd_table_with_std(fdTable)
    /\ pc' = "user"
    /\ UNCHANGED <<last, codec, vfsVars>>

\* int 0x80 with rax = num, rdi = a0, rsi = a1, rdx = a2: the handler runs
\* to completion and its result is left in the trap frame.
Trap(num, a0, a1, a2, heap) ==
    /\ pc = "user"
    /\ \E r \in {dispatch(fdTable, heap, num, a0, a1, a2)} :
           /\ fdTable' = r.table
           /\ pc' = IF r.panic THEN "panic" ELSE "trap"
           /\ last' = [op |-> IF lookup(num) = None THEN "unknown" ELSE lookup(num),
                       num |-> num, a0 |-> a0, a1 |-> a1, a2 |-> a2,
                       ret |-> r.ret, panic |-> r.panic,
                       probed |-> r.probed, calls |-> r.calls, copied |-> r.copied]
    /\ UNCHANGED <<codec, vfsVars>>

\* iretq: the caller takes the result and runs on.
Return ==
    /\ pc = "trap"
    /\ pc' = "user"
    /\ last' = NoCall
    /\ UNCHANGED <<fdTable, codec, vfsVars>>

SysWrite ==
    \E fd \in RwFds, buf \in BufPtrs, len \in Lens : Trap(U(SYS_WRITE), fd, buf, len, U(0))

SysExit == \E code \in ExitCodes : Trap(U(SYS_EXIT), code, U(0), U(0), U(0))

SysOpen ==
    \E p \in OpenPtrs, flags \in OpenFlags : Trap(U(SYS_OPEN), p, flags, U(0), U(0))

SysRead ==
    \E fd \in RwFds, buf \in BufPtrs, len \in Lens : Trap(U(SYS_READ), fd, buf, len, U(0))

SysAlloc ==
    \E size \in AllocSizes, heap \in AllocOutcomes :
        Trap(U(SYS_ALLOC), size, U(0), U(0), heap)

SysFree ==
    \E ptr \in {U(0), HEAP_BLOCK}, size \in {U(0), U(64)} :
        Trap(U(SYS_FREE), ptr, size, U(0), U(0))

SysClose == \E fd \in CloseFds : Trap(U(SYS_CLOSE), fd, U(0), U(0), U(0))

SysUnknown == \E num \in UnknownNums : Trap(num, U(0), U(0), U(0), U(0))

Next ==
    \/ KernelInit
    \/ SysWrite
    \/ SysExit
    \/ SysOpen
    \/ SysRead
    \/ SysAlloc
    \/ SysFree
    \/ SysClose
    \/ SysUnknown
    \/ Return

Spec == Init /\ [][Next]_vars

-----------------------------------------------------------------------------
(* The FD-table API called in any order: the handlers are installed before  *)
(* the table is created, and fd_clear_all drops the table again             *)

\* The dispatcher is installed and FD_TABLE still holds None.
ColdInit ==
    /\ pc = "user"
    /\ fdTable = NoTable
    /\ last = NoCall
    /\ codec = Idle
    /\ VfsCold

\* init_fd_table_with_std()
InitFdTable ==
    /\ pc = "user"
    /\ fdTable' = init_fd_table_with_std(fdTable)
    /\ UNCHANGED <<pc, last, codec, vfsVars>>

\* fd_clear_all()
FdClearAll ==
    /\ pc = "user"
    /\ fdTable' = fd_clear_all(fdTable)
    /\ UNCHANGED <<pc, last, codec, vfsVars>>

NextCold ==
    \/ InitFdTable
    \/ FdClearAll
    \/ SysWrite
    \/ SysExit
    \/ SysOpen
    \/ SysRead
    \/ SysAlloc
    \/ SysFree
    \/ SysClose
    \/ SysUnknown
    \/ Return

SpecCold == ColdInit /\ [][NextCold]_vars

-----------------------------------------------------------------------------
(* Descriptors over VFS files: kernel code installs VfsFileLike adapters    *)
(* with fd_alloc, and the syscalls read, write and close them               *)

\* Most descriptors fd_alloc is asked to hold at a time.
MaxBackends == 1

\* Largest size a MemFile is let grow to.
MaxFileSize == 8

\* The file objects handed to fd_alloc: an adapter over a MemFile with the
\* content of /etc/hostname, one over an empty MemFile, the console sink.
NewFiles ==
    {VfsFileLike_new(MemFile_new(HOSTNAME_BYTES)), VfsFileLike_new(MemFile_new(<<>>)), Stdout,
     VfsFileLike_default}

FileFds == {U(n) : n \in 1..(3 + MaxBackends)}

FileBufs == {USER_BUF, KERNEL_BUF}

FileLens == {U(0), U(3), U(16), U(300)}

\* kernel_init has created the table with stdout at fd 1.
FilesInit ==
    /\ pc = "user"
    /\ fdTable = init_fd_table_with_std(NoTable)
    /\ last = NoCall
    /\ codec = Idle
    /\ VfsCold

\* fd_alloc(FdEntry { file, flags: 0, offset: 0 })
FdAlloc ==
    /\ pc = "user"
    /\ Cardinality(DOMAIN Unwrap(fdTable) \ {1}) < MaxBackends
    /\ \E file \in NewFiles : fdTable' = fd_alloc(fdTable, FdEntry(file)).table
    /\ UNCHANGED <<pc, last, codec, vfsVars>>

FileRead ==
    \E fd \in FileFds, buf \in FileBufs, len \in FileLens :
        Trap(U(SYS_READ), fd, buf, len, U(0))

\* A write is issued while the file it would extend stays within MaxFileSize.
FileWrite ==
    \E fd \in FileFds, buf \in FileBufs, len \in FileLens :
        /\ (contains_key(Unwrap(fdTable), fd) /\ ULe(len, U(MAX_WRITE)))
              => Unwrap(fdTable)[Val(fd)].file.offset + Val(len) <= MaxFileSize
        /\ Trap(U(SYS_WRITE), fd, buf, len, U(0))

FileClose == \E fd \in FileFds : Trap(U(SYS_CLOSE), fd, U(0), U(0), U(0))

\* fd_close(fd), called by kernel code: its result goes back to the caller.
FdClose ==
    /\ pc = "user"
    /\ \E fd \in FileFds :
           \E r \in {fd_close(fdTable, fd)} :
               /\ fdTable' = r.table
               /\ pc' = IF r.panic THEN "panic" ELSE "trap"
               /\ last' = [op |-> "fd_close", num |-> U(0), a0 |-> fd, a1 |-> U(0),
                           a2 |-> U(0), ret |-> r.ret, panic |-> r.panic,
                           probed |-> r.probed, calls |-> r.calls, copied |-> r.copied]
    /\ UNCHANGED <<codec, vfsVars>>

NextFiles ==
    \/ FdAlloc
    \/ FileRead
    \/ FileWrite
    \/ FileClose
    \/ FdClose
    \/ Return

SpecFiles == FilesInit /\ [][NextFiles]_vars

-----------------------------------------------------------------------------
(* The return-value convention between the kernel and the user wrappers     *)

\* Largest small success value a trap is made to return.
MaxOkRaw == 64

\* Every errno code the kernel defines (EPERM = 1 .. EHWPOISON = 133).
Errnos == 1..EHWPOISON

\* Success values: small counts and descriptors, addresses, i64::MAX.
OkRaws ==
    {U(n) : n \in 0..MaxOkRaw}
        \cup {U(MAX_WRITE), U32_MAX, USER_BUF, HEAP_BLOCK, Hex(HalfLimb - 1, 65535, 65535, 65535)}

\* A handler fails with errno e: rax carries err(e) back to the wrapper.
ReturnErr ==
    /\ codec.kind \in {"idle", "decoded"}
    /\ \E e \in Errnos : codec' = [kind |-> "raw", e |-> e, raw |-> err(e)]
    /\ UNCHANGED <<pc, fdTable, last, vfsVars>>

\* A handler succeeds: rax carries a non-negative value back to the wrapper.
ReturnOk ==
    /\ codec.kind \in {"idle", "decoded"}
    /\ \E raw \in OkRaws : codec' = [kind |-> "raw", e |-> 0, raw |-> raw]
    /\ UNCHANGED <<pc, fdTable, last, vfsVars>>

\* The wrapper decodes the raw return value.
Decode ==
    /\ codec.kind = "raw"
    /\ codec' = [kind |-> "decoded", e |-> codec.e, raw |-> codec.raw,
                 dec |-> decode_ret(codec.raw)]
    /\ UNCHANGED <<pc, fdTable, last, vfsVars>>

NextErrno ==
    \/ ReturnErr
    \/ ReturnOk
    \/ Decode

SpecErrno == Init /\ [][NextErrno]_vars

-----------------------------------------------------------------------------
(* The VFS operations called in any order, each taking and releasing its    *)
(* lock, next to open and close on the FD table                             *)

\* Most descriptors above the standard ones open at a time.
MaxVfsFds == 1

\* "", "/", "//", "/e", "/e/", "/e/h", "e/h", "//e//h/", "/e/h/x"
VfsPaths ==
    {<<>>, <<"/">>, <<"/", "/">>, <<"/", "e">>, <<"/", "e", "/">>,
     <<"/", "e", "/", "h">>, <<"e", "/", "h">>,
     <<"/", "/", "e", "/", "/", "h", "/">>,
     <<"/", "e", "/", "h", "/", "x">>}

\* The paths handed to resolve_path: those, and "/e/m", which is never created.
ResolvePaths == VfsPaths \cup {<<"/", "e", "/", "m">>}

\* The backends handed to vfs_create_file: the content of /etc/hostname and
\* an empty file.
VfsFiles == {MemFile_new(HOSTNAME_BYTES), MemFile_new(<<>>)}

VfsOpenPtrs == {U(0), PATH_EMPTY, PATH_VFS_HOSTNAME, PATH_VFS_MISSING}

VfsInit ==
    /\ pc = "user"
    /\ fdTable = init_fd_table_with_std(NoTable)
    /\ last = NoCall
    /\ codec = Idle
    /\ VfsCold

\* An operation is entered: nothing else is running on the one CPU.
Enter(c) ==
    /\ pc = "user"
    /\ cpu = CpuIdle
    /\ cpu' = c
    /\ UNCHANGED <<pc, fdTable, last, codec, mountTable, held, memFile, allocator, timer>>

CallInitMountTable ==
    Enter(Start("init_mount_table", <<>>, NoFile, U(0), init_mount_table_steps))

CallMkdir ==
    \E path \in VfsPaths :
        Enter(Start("vfs_mkdir", path, NoFile, U(0), vfs_mkdir_steps(path)))

CallCreateFile ==
    \E path \in VfsPaths, file \in VfsFiles :
        Enter(Start("vfs_create_file", path, file, U(0), vfs_create_file_steps(path)))

CallResolve ==
    \E path \in ResolvePaths :
        Enter(Start("resolve_path", path, NoFile, U(0), resolve_path_steps))

CallOpen ==
    /\ Cardinality(DOMAIN Unwrap(fdTable) \ {1}) < MaxVfsFds
    /\ \E ptr \in VfsOpenPtrs :
           Enter(Start("sys_open", <<>>, NoFile, ptr, sys_open_steps(ptr, U(0))))

CallClose ==
    \E fd \in 1..(3 + MaxVfsFds) :
        Enter(Start("sys_close", <<>>, NoFile, U(fd), sys_close_steps))

\* lock(): the spin loop ends when the lock is free, and takes it.
Acquire ==
    /\ cpu.steps # <<>>
    /\ Head(cpu.steps)[1] = "lock"
    /\ Head(cpu.steps)[2] \notin held
    /\ held' = held \cup {Head(cpu.steps)[2]}
    /\ cpu' = [cpu EXCEPT !.steps = Tail(@)]
    /\ UNCHANGED <<pc, fdTable, last, codec, mountTable, memFile, allocator, timer>>

\* The guard goes out of scope.
Release ==
    /\ cpu.steps # <<>>
    /\ Head(cpu.steps)[1] = "unlock"
    /\ held' = held \ {Head(cpu.steps)[2]}
    /\ cpu' = [cpu EXCEPT !.steps = Tail(@)]
    /\ UNCHANGED <<pc, fdTable, last, codec, mountTable, memFile, allocator, timer>>

\* The operation in progress is op and its body is the next step.
AtBody(op) == cpu.op = op /\ cpu.steps # <<>> /\ Head(cpu.steps) = Body

\* A body that works on the mount table and returns r.
MountBody(r) ==
    /\ mountTable' = r.mt
    /\ cpu' = Finished(cpu, r)
    /\ UNCHANGED <<pc, fdTable, last, codec, held, memFile, allocator, timer>>

InitMountTableBody ==
    /\ AtBody("init_mount_table")
    /\ MountBody(VfsOk(init_mount_table(mountTable), NoFile))

MkdirBody == AtBody("vfs_mkdir") /\ MountBody(vfs_mkdir(mountTable, cpu.path))

CreateFileBody ==
    AtBody("vfs_create_file") /\ MountBody(vfs_create_file(mountTable, cpu.path, cpu.file))

ResolveBody == AtBody("resolve_path") /\ MountBody(resolve_path(mountTable, cpu.path))

\* A body that works on the FD table and returns the raw value r.ret.
FdBody(r) ==
    /\ fdTable' = r.table
    /\ cpu' = Finished(cpu, [ok |-> ~as_i64(r.ret).neg,
                             val |-> IF as_i64(r.ret).neg THEN Val(wrapping_neg(r.ret))
                                     ELSE Val(r.ret)])
    /\ UNCHANGED <<pc, last, codec, mountTable, held, memFile, allocator, timer>>

OpenBody == AtBody("sys_open") /\ FdBody(sys_open(fdTable, cpu.arg, U(0), U(0)))

CloseBody == AtBody("sys_close") /\ FdBody(sys_close(fdTable, cpu.arg))

\* The operation returns to its caller.
Leave ==
    /\ cpu.op # "idle"
    /\ cpu.steps = <<>>
    /\ cpu' = CpuIdle
    /\ UNCHANGED <<pc, fdTable, last, codec, mountTable, held, memFile, allocator, timer>>

NextVfs ==
    \/ CallInitMountTable
    \/ CallMkdir
    \/ CallCreateFile
    \/ CallResolve
    \/ CallOpen
    \/ CallClose
    \/ Acquire
    \/ Release
    \/ InitMountTableBody
    \/ MkdirBody
    \/ CreateFileBody
    \/ ResolveBody
    \/ OpenBody
    \/ CloseBody
    \/ Leave

SpecVfs == VfsInit /\ [][NextVfs]_vars

-----------------------------------------------------------------------------
(* run_syscall_tests: calls of open and close, then the exit sequence that  *)
(* ends the harness, each handler run lock step by lock step               *)

\* The locals of run_syscall_tests: the statement it is at, the value the
\* last exit returned and whether `guard` is in scope.
Harness(at, code, guard) ==
    [op |-> "run_syscall_tests", at |-> at, code |-> code, guard |-> guard]

HarnessInit ==
    /\ pc = "user"
    /\ fdTable = init_fd_table_with_std(NoTable)
    /\ last = Harness("tests", U(0), FALSE)
    /\ codec = Idle
    /\ VfsCold

\* The harness, at statement `at`, calls a handler and moves to `to`.
HarnessCall(at, to, c) ==
    /\ pc = "user"
    /\ last.at = at
    /\ cpu = CpuIdle
    /\ cpu' = c
    /\ last' = [last EXCEPT !.at = to]
    /\ UNCHANGED <<pc, fdTable, codec, mountTable, held, memFile, allocator, timer>>

\* The open and close calls of the tests before the exit sequence.
TestOpen ==
    /\ Cardinality(DOMAIN Unwrap(fdTable) \ {1}) < MaxVfsFds
    /\ \E ptr \in VfsOpenPtrs :
           HarnessCall("tests", "tests",
                       Start("sys_open", <<>>, NoFile, ptr, sys_open_steps(ptr, U(0))))

TestClose ==
    \E fd \in 1..(3 + MaxVfsFds) :
        HarnessCall("tests", "tests", Start("sys_close", <<>>, NoFile, U(fd), sys_close_steps))

\* let code = sys_exit(123);
TestExit ==
    HarnessCall("tests", "exit", Start("sys_exit", <<>>, NoFile, U(123), sys_exit_steps))

ExitBody == AtBody("sys_exit") /\ FdBody(sys_exit(fdTable, cpu.arg))

\* The handler returns to the harness, which runs on to its next call: after
\* an exit it asserts code == 0, and after the last one `guard` goes out of
\* scope as run_syscall_tests returns.
HandlerReturn ==
    /\ pc = "user"
    /\ cpu.op # "idle"
    /\ cpu.steps = <<>>
    /\ cpu' = CpuIdle
    /\ \E code \in {IF cpu.ret.ok THEN U(cpu.ret.val) ELSE err(cpu.ret.val)} :
           /\ last' = [last EXCEPT !.code = code,
                                   !.at = IF @ = "exit" THEN "exited"
                                          ELSE IF @ = "exit_max" THEN "returned" ELSE @,
                                   !.guard = IF last.at = "exit_max" THEN FALSE ELSE @]
           /\ pc' = IF cpu.op = "sys_exit" /\ code # U(0) THEN "panic" ELSE "user"
    /\ held' = IF last.at = "exit_max" THEN held \ {FD_TABLE} ELSE held
    /\ UNCHANGED <<fdTable, codec, mountTable, memFile, allocator, timer>>

\* let guard = current_process_fd_table();
\* assert!(guard.as_ref().unwrap().is_empty(), ..);
TakeGuard ==
    /\ pc = "user"
    /\ last.at = "exited"
    /\ cpu = CpuIdle
    /\ FD_TABLE \notin held
    /\ held' = held \cup {FD_TABLE}
    /\ last' = [last EXCEPT !.at = "guarded", !.guard = TRUE]
    /\ pc' = IF fdTable # NoTable /\ Unwrap(fdTable) = EmptyTable THEN "user" ELSE "panic"
    /\ UNCHANGED <<fdTable, codec, mountTable, cpu, memFile, allocator, timer>>

\* let code = sys_exit(u64::MAX);
TestExitMax ==
    HarnessCall("guarded", "exit_max",
                Start("sys_exit", <<>>, NoFile, U64_MAX, sys_exit_steps))

NextHarness ==
    \/ TestOpen
    \/ TestClose
    \/ TestExit
    \/ TakeGuard
    \/ TestExitMax
    \/ Acquire
    \/ Release
    \/ OpenBody
    \/ CloseBody
    \/ ExitBody
    \/ HandlerReturn

SpecHarness == HarnessInit /\ [][NextHarness]_vars

\* The one CPU keeps executing: the handler in progress takes its next step
\* whenever it can, and a spin loop goes on for as long as the lock is held.
SpecHarnessFair == SpecHarness /\ WF_vars(NextHarness)

-----------------------------------------------------------------------------
(* A MemFile on its own: vfs_test_write, and reads, writes and rewinds      *)

\* Longest buffer handed to MemFile::write, apart from "abc".
MaxBufLen == 2

\* Largest size the MemFile is let grow to.
MaxMemSize == 4

RECURSIVE SeqsUpTo(_, _)
\* The sequences over a set of bytes of length at most n.
SeqsUpTo(bytes, n) ==
    IF n = 0 THEN {<<>>}
    ELSE LET shorter == SeqsUpTo(bytes, n - 1)
         IN  shorter \cup {Append(s, b) : s \in shorter, b \in bytes}

\* b"abc", the bytes vfs_test_write writes.
ABC == <<97, 98, 99>>

Bufs == SeqsUpTo({97, 98}, MaxBufLen) \cup {ABC}

ReadLens == 0..(MaxBufLen + 1)

\* The locals of the MemFile caller: the statement it is at, the bytes it
\* wrote, the count last returned to it and its read buffer.
MemCall(op, at, b, n, buf) == [op |-> op, at |-> at, b |-> b, n |-> n, buf |-> buf]

\* [0u8; k]
Zeroes(k) == [i \in 1..k |-> 0]

\* The caller's buffer after f.read(&mut buf): the bytes read over what the
\* buffer held.
ReadInto(buf, bytes) == [i \in 1..Len(buf) |-> IF i <= Len(bytes) THEN bytes[i] ELSE buf[i]]

MemInit ==
    /\ pc = "user"
    /\ fdTable = init_fd_table_with_std(NoTable)
    /\ last = NoCall
    /\ codec = Idle
    /\ VfsCold

\* No vfs_test_write is under way.
MemFree == pc = "user" /\ last.op # "vfs_test_write"

\* let mut f = MemFile::new(initial);
MemNew ==
    /\ MemFree
    /\ \E initial \in Bufs :
           /\ memFile' = MemFile_new(initial)
           /\ last' = MemCall("new", "done", initial, 0, <<>>)
    /\ UNCHANGED <<pc, fdTable, codec, mountTable, held, cpu, allocator, timer>>

\* f.write(b)
MemWrite(b) ==
    /\ MemFree
    /\ memFile.offset + Len(b) <= MaxMemSize
    /\ \E w \in {MemFile_write(memFile, b)} :
           /\ memFile' = w.file
           /\ last' = MemCall("write", "done", b, w.val, <<>>)
    /\ UNCHANGED <<pc, fdTable, codec, mountTable, held, cpu, allocator, timer>>

\* f.read(&mut [0u8; k])
MemRead(k) ==
    /\ MemFree
    /\ \E r \in {MemFile_read(memFile, k)} :
           /\ memFile' = r.file
           /\ last' = MemCall("read", "done", <<>>, r.val, ReadInto(Zeroes(k), r.bytes))
    /\ UNCHANGED <<pc, fdTable, codec, mountTable, held, cpu, allocator, timer>>

\* f.offset = 0;
MemRewind ==
    /\ MemFree
    /\ memFile' = [memFile EXCEPT !.offset = 0]
    /\ last' = MemCall("rewind", "done", <<>>, 0, <<>>)
    /\ UNCHANGED <<pc, fdTable, codec, mountTable, held, cpu, allocator, timer>>

MemWrites == \E b \in Bufs : MemWrite(b)

MemReads == \E k \in ReadLens : MemRead(k)

\* vfs_test_write, run on any bytes b: let mut f = MemFile::new(Vec::new());
TestNew ==
    /\ MemFree
    /\ \E b \in Bufs :
           /\ memFile' = MemFile_new(<<>>)
           /\ last' = MemCall("vfs_test_write", "new", b, 0, Zeroes(Len(b)))
    /\ UNCHANGED <<pc, fdTable, codec, mountTable, held, cpu, allocator, timer>>

\* let n = f.write(b).unwrap(); assert_eq!(n, len);
TestWrite ==
    /\ pc = "user" /\ last.op = "vfs_test_write" /\ last.at = "new"
    /\ \E w \in {MemFile_write(memFile, last.b)} :
           /\ memFile' = w.file
           /\ last' = [last EXCEPT !.at = "written", !.n = w.val]
           /\ pc' = IF w.val = Len(last.b) THEN "user" ELSE "panic"
    /\ UNCHANGED <<fdTable, codec, mountTable, held, cpu, allocator, timer>>

\* f.offset = 0;
TestRewind ==
    /\ pc = "user" /\ last.op = "vfs_test_write" /\ last.at = "written"
    /\ memFile' = [memFile EXCEPT !.offset = 0]
    /\ last' = [last EXCEPT !.at = "rewound"]
    /\ UNCHANGED <<pc, fdTable, codec, mountTable, held, cpu, allocator, timer>>

\* let n = f.read(&mut buf).unwrap(); assert_eq!(n, len); assert_eq!(&buf, b);
TestRead ==
    /\ pc = "user" /\ last.op = "vfs_test_write" /\ last.at = "rewound"
    /\ \E r \in {MemFile_read(memFile, Len(last.b))} :
           /\ memFile' = r.file
           /\ last' = [last EXCEPT !.at = "read", !.n = r.val,
                                   !.buf = ReadInto(last.buf, r.bytes)]
           /\ pc' = IF r.val = Len(last.b) /\ ReadInto(last.buf, r.bytes) = last.b
                    THEN "user" ELSE "panic"
    /\ UNCHANGED <<fdTable, codec, mountTable, held, cpu, allocator, timer>>

\* vfs_test_write returns.
TestReturn ==
    /\ pc = "user" /\ last.op = "vfs_test_write" /\ last.at = "read"
    /\ last' = [last EXCEPT !.op = "none", !.at = "done"]
    /\ UNCHANGED <<pc, fdTable, codec, mountTable, held, cpu, memFile, allocator, timer>>

NextMemFile ==
    \/ MemNew
    \/ MemWrites
    \/ MemReads
    \/ MemRewind
    \/ TestNew
    \/ TestWrite
    \/ TestRewind
    \/ TestRead
    \/ TestReturn

SpecMemFile == MemInit /\ [][NextMemFile]_vars

-----------------------------------------------------------------------------
(* The pointer guard on its own: is_user_ptr applied to addresses around    *)
(* the boundaries of the address space                                      *)

\* How far from each boundary the addresses handed to the guard lie.
MaxPtrDelta == 16

\* 0, the first non-canonical address (bit 47), the end of the low 48 bits,
\* the first canonical kernel address, bit 63, and the top of the space.
PtrBases ==
    {U(0), NON_CANONICAL, Hex(1, 0, 0, 0), Hex(65535, 32768, 0, 0),
     Hex(HalfLimb, 0, 0, 0), U64_MAX}

GuardPtrs ==
    {wrapping_add(base, U(k)) : base \in PtrBases, k \in 0..MaxPtrDelta}
        \cup {wrapping_add(base, wrapping_neg(U(k))) : base \in PtrBases, k \in 0..MaxPtrDelta}

PtrInit ==
    /\ pc = "user"
    /\ fdTable = init_fd_table_with_std(NoTable)
    /\ last = NoCall
    /\ codec = Idle
    /\ VfsCold

\* is_user_ptr(ptr)
CheckPtr ==
    /\ \E ptr \in GuardPtrs :
           codec' = [kind |-> "guard", ptr |-> ptr, ok |-> is_user_ptr(ptr)]
    /\ UNCHANGED <<pc, fdTable, last, vfsVars>>

NextPtr == CheckPtr

SpecPtr == PtrInit /\ [][NextPtr]_vars

-----------------------------------------------------------------------------
(* Properties of the descriptor table                                      *)

\* The descriptors currently open.
Keys == IF fdTable = NoTable THEN {} ELSE DOMAIN Unwrap(fdTable)

\* A raw return value that is negative as i64.
IsErr(ret) == as_i64(ret).neg

\* The smallest integer >= 3 that is not in the set of descriptors.
MinFree(keys) == CHOOSE n \in 3..(MAX_FD + 1) : n \notin keys /\ \A m \in 3..(n - 1) : m \in keys

\* The step taken is a trap into the named handler, which returned.
Called(op) == pc = "user" /\ pc' = "trap" /\ last'.op = op

\* C1: lowest-free-wins.  Every successful open returns the smallest integer
\* >= 3 that was not a key of the table and adds exactly that key; and in the
\* state a successful close(fd) leaves, an open returns fd again whenever no
\* lower descriptor is free.
LowestFreeWins ==
    [][/\ (Called("sys_open") /\ ~IsErr(last'.ret))
            => /\ last'.ret = U(MinFree(Keys))
               /\ Keys' = Keys \cup {MinFree(Keys)}
       /\ (Called("sys_close_trampoline") /\ last'.ret = U(0)
              /\ \A n \in 3..(Val(last'.a0) - 1) : n \in Keys')
            => sys_open(fdTable', PATH_FOO, U(0), U(0)).ret = last'.a0
      ]_vars

\* C1 witness: with 3, 4 and 6 open and 5 free, open has just returned 5.
LowestFreeWinsWitness ==
    /\ pc = "trap" /\ last.op = "sys_open" /\ last.ret = U(5)
    /\ {3, 4, 6} \subseteq Keys

\* The descriptors >= 3 currently open.
Used == Keys \cap (3..MAX_FD)

\* An open whose path and flags are acceptable, as in the harness.
GoodOpen == Called("sys_open") /\ last'.a0 = PATH_FOO /\ last'.a1 = U(0)

\* C2: exhaustion.  From a table with no descriptor >= 3, successive opens
\* return 3, 4, ..., MAX_FD in increasing order (MAX_FD - 2 of them); with all
\* of 3..MAX_FD open the next open returns EMFILE and leaves the table as it
\* is; with exactly one descriptor f of 3..MAX_FD closed again, open returns f.
Exhaustion ==
    [][GoodOpen =>
          /\ \A k \in 3..MAX_FD :
                Used = 3..(k - 1) => last'.ret = U(k) /\ Keys' = Keys \cup {k}
          /\ Used = 3..MAX_FD => last'.ret = err(EMFILE) /\ fdTable' = fdTable
          /\ \A f \in 3..MAX_FD :
                Used = (3..MAX_FD) \ {f} => last'.ret = U(f)
      ]_vars

\* C2 witness: every descriptor of 3..MAX_FD is open (62 of them) and open
\* has just returned EMFILE.
ExhaustionWitness ==
    /\ pc = "trap" /\ last.op = "sys_open" /\ last.ret = err(EMFILE)
    /\ Used = 3..MAX_FD /\ Cardinality(Used) = 62

\* C3: open and fd_alloc never hand out 0, 1 or 2: every descriptor they
\* return lies in [3, MAX_FD]; every key of the table is <= MAX_FD, so the
\* table never holds more than MAX_FD entries.
ReservedAndBounded ==
    /\ \A k \in Keys : k <= MAX_FD
    /\ Cardinality(Keys) <= MAX_FD
    /\ (last.op = "sys_open" /\ ~IsErr(last.ret))
         => IsSmall(last.ret) /\ Val(last.ret) \in 3..MAX_FD
    /\ (fdTable # NoTable /\ ~IsErr(fd_alloc(fdTable, FdEntry(Stdout)).ret))
         => LET r == fd_alloc(fdTable, FdEntry(Stdout))
            IN  /\ IsSmall(r.ret) /\ Val(r.ret) \in 3..MAX_FD
                /\ DOMAIN Unwrap(r.table) \subseteq 0..MAX_FD

\* C3 witness: open has just handed out MAX_FD, the largest descriptor.
ReservedAndBoundedWitness ==
    /\ pc = "trap" /\ last.op = "sys_open" /\ last.ret = U(MAX_FD)
    /\ MAX_FD \in Keys /\ 1 \in Keys

\* A read that gets as far as the descriptor lookup: len > 0 and a buffer
\* address the pointer guard accepts.
ReadReachesLookup(buf, len) == len # U(0) /\ is_user_ptr(buf)

\* A write that gets as far as the descriptor lookup: 0 < len <= MAX_WRITE
\* and buf + len within 64 bits.
WriteReachesLookup(buf, len) ==
    len # U(0) /\ ULe(len, U(MAX_WRITE)) /\ ~add_overflows(buf, len)

\* The entries other than fd are the same before and after the step.
OthersUntouched(fd) ==
    \A k \in (Keys \cup Keys') \ {fd} :
        k \in Keys /\ k \in Keys' /\ Unwrap(fdTable')[k] = Unwrap(fdTable)[k]

ExitClearsState ==
    [][Called("sys_exit_trampoline")
          => /\ last'.ret = U(0)
             /\ fdTable' = Some(EmptyTable)
             /\ Keys' = {}
             /\ sys_open(fdTable', PATH_FOO, U(0), U(0)).ret = U(3)
      ]_vars

\* C5 witness: exit(u64::MAX) has just returned 0 and the table is empty.
ExitClearsStateWitness ==
    /\ pc = "trap" /\ last.op = "sys_exit_trampoline" /\ last.a0 = U64_MAX
    /\ last.ret = U(0) /\ Keys = {}

\* C6: close of a reserved descriptor (0, 1, 2) returns EBADF and leaves the
\* table as it is; the stdout entry at fd 1 is never removed by close.
CloseReservedRejected ==
    [][/\ (Called("sys_close_trampoline") /\ ULt(last'.a0, U(3)))
            => last'.ret = err(EBADF) /\ fdTable' = fdTable
       /\ (Called("sys_close_trampoline") /\ 1 \in Keys) => 1 \in Keys'
      ]_vars

\* C6 witness: close(1) has just returned EBADF and stdout is still open.
CloseReservedRejectedWitness ==
    /\ pc = "trap" /\ last.op = "sys_close_trampoline" /\ last.a0 = U(1)
    /\ last.ret = err(EBADF) /\ 1 \in Keys /\ 3 \in Keys

ZeroLengthFree ==
    [][((Called("sys_read") \/ Called("sys_write"))
           /\ last'.a2 = U(0) /\ contains_key(Unwrap(fdTable), last'.a0))
          => /\ last'.ret = U(0)
             /\ last'.probed = {}
             /\ last'.calls = <<>>
             /\ fdTable' = fdTable
      ]_vars

\* C8 witness: read(3, 0xFFFF_FFFF_FFFF_FFFF, 0) on the open descriptor 3 has
\* just returned 0.
ZeroLengthFreeWitness ==
    /\ pc = "trap" /\ last.op = "sys_read" /\ last.a0 = U(3) /\ 3 \in Keys
    /\ last.a1 = U64_MAX /\ last.a2 = U(0) /\ last.ret = U(0)

\* The syscall numbers with a registered handler.
Registered ==
    {U(SYS_WRITE), U(SYS_EXIT), U(SYS_OPEN), U(SYS_READ), U(SYS_ALLOC), U(SYS_FREE),
     U(SYS_CLOSE)}

\* C9: dispatch(num, 0, 0, 0) returns ENOSYS iff num has no registered
\* handler, that is iff num is outside 1..7 (numbers at and beyond the table
\* size included).
UnknownSyscallENOSYS ==
    (pc = "trap" /\ last.a0 = U(0) /\ last.a1 = U(0) /\ last.a2 = U(0))
        => /\ (last.ret = err(ENOSYS)) <=> (last.num \notin Registered)
           /\ (last.num \notin Registered) <=> (lookup(last.num) = None)

\* C9 witness: dispatch(512, 0, 0, 0), the first number past the table, has
\* just returned ENOSYS.
UnknownSyscallENOSYSWitness ==
    /\ pc = "trap" /\ last.num = U(SYSCALL_TABLE_SIZE)
    /\ last.a0 = U(0) /\ last.a1 = U(0) /\ last.a2 = U(0)
    /\ last.ret = err(ENOSYS)

\* The variant the claim names for errno e.
NamedVariant(e) ==
    IF e = EBADF THEN <<"EBADF">>
    ELSE IF e = EFAULT THEN <<"EFAULT">>
    ELSE IF e = EINVAL THEN <<"EINVAL">>
    ELSE IF e = ENOSYS THEN <<"ENOSYS">>
    ELSE IF e = ENOMEM THEN <<"ENOMEM">>
    ELSE IF e = EMFILE THEN <<"EMFILE">>
    ELSE <<"Unknown", [neg |-> FALSE, mag |-> U(e)]>>

\* C10: errno round trip.  For every errno e in 1..133, err(e) read as i64 is
\* -e and decode_ret(err(e)) is Err of the variant for e (Unknown(e) when e
\* has no variant); a non-negative raw value decodes to Ok(raw); so a decoded
\* value is Ok exactly when the raw value is non-negative.
ErrnoRoundTrip ==
    /\ (codec.kind \in {"raw", "decoded"} /\ codec.e # 0)
          => as_i64(codec.raw) = [neg |-> TRUE, mag |-> U(codec.e)]
    /\ (codec.kind = "decoded" /\ codec.e # 0)
          => codec.dec = [ok |-> FALSE, val |-> NamedVariant(codec.e)]
    /\ (codec.kind = "decoded" /\ ~IsErr(codec.raw))
          => codec.dec = [ok |-> TRUE, val |-> codec.raw]
    /\ codec.kind = "decoded" => (codec.dec.ok <=> codec.e = 0)

\* C10 witness: err(EHWPOISON), the largest code, has been decoded to
\* Err(Unknown(133)).
ErrnoRoundTripWitness ==
    /\ codec.kind = "decoded" /\ codec.e = EHWPOISON
    /\ codec.dec = [ok |-> FALSE, val |-> <<"Unknown", [neg |-> FALSE, mag |-> U(133)]>>]

\* C11 as claimed: no syscall on the FD table panics.  In every state reached
\* by init, open, read, write, close, exit and fd_clear_all, a read, write or
\* close has returned a value, and that value is EBADF when the table is not
\* there and the arguments reach the table lookup.
NoPanicOnFdTable ==
    (last.op \in {"sys_read", "sys_write", "sys_close_trampoline"})
        => /\ ~last.panic
           /\ pc # "panic"
           /\ (fdTable = NoTable /\ last.op = "sys_close_trampoline")
                 => last.ret = err(EBADF)
           /\ (fdTable = NoTable /\ last.op = "sys_read"
                 /\ ReadReachesLookup(last.a1, last.a2))
                 => last.ret = err(EBADF)
           /\ (fdTable = NoTable /\ last.op = "sys_write"
                 /\ WriteReachesLookup(last.a1, last.a2))
                 => last.ret = err(EBADF)

\* C12 (amended): open with a path pointer the user-pointer guard rejects
\* allocates no descriptor; it returns EFAULT when the pointer is not null (a
\* non-canonical address, an address above the user/kernel split such as
\* 0xFFFF_FFFF_FFFF_FFFF) and ENOENT when it is null.
OpenBadPointer ==
    [][(Called("sys_open") /\ ~is_user_ptr(last'.a0))
          => /\ last'.ret = IF last'.a0 = U(0) THEN err(ENOENT) ELSE err(EFAULT)
             /\ fdTable' = fdTable
      ]_vars

\* C12 witness: with descriptor 3 open, open(0xFFFF_FFFF_FFFF_FFFF) has just
\* returned EFAULT and 4 is still free.
OpenBadPointerWitness ==
    /\ pc = "trap" /\ last.op = "sys_open" /\ last.a0 = U64_MAX
    /\ last.ret = err(EFAULT)
    /\ 3 \in Keys /\ 4 \notin Keys

\* C12 as claimed: open returns EFAULT for every path pointer the guard
\* rejects, address 0 included, and allocates nothing.
OpenBadPointerAsClaimed ==
    [][(Called("sys_open") /\ ~is_user_ptr(last'.a0))
          => last'.ret = err(EFAULT) /\ fdTable' = fdTable
      ]_vars

\* C13: open with a path pointer that decodes returns EINVAL when the decoded
\* path is empty or when flags = 0xFFFF_FFFF, whatever the table holds (a full
\* table included), and leaves the table as it is.
OpenInvalidArgument ==
    [][(/\ Called("sys_open")
        /\ copy_cstr_from_user(last'.a0, SCRATCH_LEN).ok
        /\ \/ copy_cstr_from_user(last'.a0, SCRATCH_LEN).str = <<>>
           \/ last'.a1 = OPEN_BAD_FLAGS)
          => last'.ret = err(EINVAL) /\ fdTable' = fdTable
      ]_vars

\* C13 witness: on a full table, open("foo.txt", 0xFFFF_FFFF) has just
\* returned EINVAL (not EMFILE).
OpenInvalidArgumentWitness ==
    /\ pc = "trap" /\ last.op = "sys_open" /\ last.a0 = PATH_FOO
    /\ last.a1 = OPEN_BAD_FLAGS /\ last.ret = err(EINVAL)
    /\ \A fd \in 3..MAX_FD : fd \in Keys

\* The n bytes of user memory at addr once the handler with result r has
\* returned: what its copy_to_user calls stored there, over what was there.
UserBytesAfter(r, addr, n) ==
    [i \in 1..n |->
        LET hits == {k \in DOMAIN r.copied :
                        r.copied[k][1] = addr /\ i <= Len(r.copied[k][2])}
        IN  IF hits = {} THEN ByteAt(UserMem[addr], i - 1)
            ELSE r.copied[CHOOSE k \in hits : \A j \in hits : j <= k][2][i]]

\* "/vfs/": the prefix that routes a path to the VFS tree.
VFS_PREFIX == <<47, 118, 102, 115, 47>>

\* The path at ptr decodes and begins with the VFS prefix.
UnderVfsPrefix(ptr) ==
    LET c == copy_cstr_from_user(ptr, SCRATCH_LEN)
    IN  c.ok /\ Len(c.str) >= Len(VFS_PREFIX)
             /\ SubSeq(c.str, 1, Len(VFS_PREFIX)) = VFS_PREFIX

\* C14 as claimed: VFS routing.  A successful open of "/vfs/etc/hostname"
\* yields a descriptor on which read(fd, buf, 16) returns 8 and stores
\* "bulldog\n" at buf; open of a path under the prefix that does not resolve
\* returns an error and allocates nothing; a descriptor bound to the console
\* sink is handed out for paths outside the prefix only.
VfsRouting ==
    [][(Called("sys_open") /\ last'.a1 # OPEN_BAD_FLAGS)
          => /\ (last'.a0 = PATH_VFS_HOSTNAME /\ ~IsErr(last'.ret))
                   => LET r == sys_read(fdTable', last'.ret, USER_BUF, U(16))
                      IN  /\ r.ret = U(8)
                          /\ UserBytesAfter(r, USER_BUF, 8) = HOSTNAME_BYTES
             /\ (last'.a0 = PATH_VFS_MISSING)
                   => IsErr(last'.ret) /\ fdTable' = fdTable
             /\ (~IsErr(last'.ret) /\ is_user_ptr(last'.a0))
                   => (Unwrap(fdTable')[Val(last'.ret)].file = Stdout
                          <=> ~UnderVfsPrefix(last'.a0))
      ]_vars

\* C15 as claimed: single shared file object.  Two descriptors opened on
\* "/vfs/etc/hostname" share one backend: after 3 bytes are read through the
\* first, a read of 16 through the second starts at offset 3 and returns the
\* remaining 5; closing the first leaves the second usable (a further read
\* returns 0 at end of file, not an error).
SharedFileObject ==
    (pc = "user" /\ fdTable # NoTable)
        => LET o1 == sys_open(fdTable, PATH_VFS_HOSTNAME, U(0), U(0))
               o2 == sys_open(o1.table, PATH_VFS_HOSTNAME, U(0), U(0))
               r1 == sys_read(o2.table, o1.ret, USER_BUF, U(3))
               r2 == sys_read(r1.table, o2.ret, USER_BUF, U(16))
               c1 == sys_close(r2.table, o1.ret)
               r3 == sys_read(c1.table, o2.ret, USER_BUF, U(16))
           IN  (~IsErr(o1.ret) /\ ~IsErr(o2.ret))
                  => /\ r1.ret = U(3)
                     /\ r2.ret = U(5)
                     /\ c1.ret = U(0)
                     /\ r3.ret = U(0)

\* C16 as claimed: a successful read(fd, buf_ptr, len) with len > 0 returns
\* n <= min(len, 256), the number of bytes the backend's read produced, and
\* on return the first n bytes of user memory at buf_ptr are those bytes.
ReadCopiesBack ==
    [][(Called("sys_read") /\ last'.a2 # U(0) /\ ~IsErr(last'.ret))
          => LET k == MinLen(last'.a2, SCRATCH_LEN)
                 produced == file_read(Unwrap(fdTable)[Val(last'.a0)].file, k)
                 n == produced.val
             IN  /\ produced.ok
                 /\ last'.ret = U(n)
                 /\ n <= k
                 /\ UserBytesAfter(last', last'.a1, n) = produced.bytes
      ]_vars

\* C17: for len > 0, read(fd, buf_ptr, len) returns EBADF when fd is not a
\* key of the table and buf_ptr passes the pointer guard, and EFAULT when fd
\* is open and buf_ptr is rejected by the guard; in both cases the table and
\* every backend (data, offset) are as before, no backend was called and
\* nothing was stored to user memory.
ReadErrors ==
    [][(Called("sys_read") /\ last'.a2 # U(0))
          => /\ (~contains_key(Unwrap(fdTable), last'.a0) /\ is_user_ptr(last'.a1))
                   => /\ last'.ret = err(EBADF)
                      /\ fdTable' = fdTable
                      /\ last'.calls = <<>> /\ last'.copied = <<>>
             /\ (contains_key(Unwrap(fdTable), last'.a0) /\ ~is_user_ptr(last'.a1))
                   => /\ last'.ret = err(EFAULT)
                      /\ fdTable' = fdTable
                      /\ last'.calls = <<>> /\ last'.copied = <<>>
      ]_vars

\* C17 witness: descriptor 3 is a VFS file with unread data, and a read of
\* 16 bytes into a kernel-half address has just returned EFAULT.
ReadErrorsWitness ==
    /\ pc = "trap" /\ last.op = "sys_read" /\ last.a0 = U(3)
    /\ last.a1 = KERNEL_BUF /\ last.a2 = U(16)
    /\ last.ret = err(EFAULT)
    /\ 3 \in Keys
    /\ Unwrap(fdTable)[3].file.kind = "VfsFileLike"
    /\ Unwrap(fdTable)[3].file.offset < Len(Unwrap(fdTable)[3].file.data)

\* The write is on an open descriptor other than 0.
WriteOnOpenFd == last'.a0 # U(0) /\ contains_key(Unwrap(fdTable), last'.a0)

\* C18 as claimed: write uses the pointer guard of read.  On an open
\* descriptor fd # 0 with 0 < len <= MAX_WRITE, write returns EFAULT iff
\* is_user_ptr(buf_ptr) is false: a kernel-half address is never accepted, a
\* valid lower-half user address is never rejected.
WriteUsesPointerGuard ==
    [][(Called("sys_write") /\ WriteOnOpenFd
          /\ last'.a2 # U(0) /\ ULe(last'.a2, U(MAX_WRITE)))
          => ((last'.ret = err(EFAULT)) <=> ~is_user_ptr(last'.a1))
      ]_vars

\* C19 as claimed: a write longer than MAX_WRITE on an open descriptor with a
\* buffer the copy accepts is clamped: it returns a byte count <= MAX_WRITE,
\* not an error code.
HugeWriteClamped ==
    [][(Called("sys_write") /\ WriteOnOpenFd
          /\ ULt(U(MAX_WRITE), last'.a2)
          /\ write_copy_from_user(last'.a1, MAX_WRITE))
          => ~IsErr(last'.ret) /\ ULe(last'.ret, U(MAX_WRITE))
      ]_vars

\* C20: for 0 < len <= MAX_WRITE and an open descriptor fd # 0, a write whose
\* buf_ptr + len overflows 64 bits returns EFAULT (never EINVAL), calls no
\* backend and leaves the table as it is.
WriteOverflowFaults ==
    [][(Called("sys_write") /\ WriteOnOpenFd
          /\ last'.a2 # U(0) /\ ULe(last'.a2, U(MAX_WRITE))
          /\ add_overflows(last'.a1, last'.a2))
          => /\ last'.ret = err(EFAULT)
             /\ last'.ret # err(EINVAL)
             /\ last'.calls = <<>>
             /\ fdTable' = fdTable
      ]_vars

\* C20 witness: with stdout open, write(1, 0xFFFF_FFFF_FFFF_FFFF, 8) has just
\* returned EFAULT.
WriteOverflowFaultsWitness ==
    /\ pc = "trap" /\ last.op = "sys_write" /\ last.a0 = U(1) /\ 1 \in Keys
    /\ last.a1 = U64_MAX /\ last.a2 = U(8)
    /\ last.ret = err(EFAULT)

\* C21 as claimed: the close syscall on an open descriptor fd >= 3 removes the
\* entry and invokes the backend's close exactly once, returning that
\* operation's result; a close that fails with EBADF invokes no backend.
CloseInvokesBackend ==
    [][Called("sys_close_trampoline")
          => /\ (~ULt(last'.a0, U(3)) /\ contains_key(Unwrap(fdTable), last'.a0))
                   => LET c == file_close(Unwrap(fdTable)[Val(last'.a0)].file)
                      IN  /\ ~contains_key(Unwrap(fdTable'), last'.a0)
                          /\ last'.calls = << <<"close", Val(last'.a0)>> >>
                          /\ last'.ret = IF c.ok THEN U(0) ELSE err(c.val)
             /\ last'.ret = err(EBADF) => last'.calls = <<>>
      ]_vars

\* C22 as claimed: reserved descriptors are reseeded at the next init.  Once
\* sys_exit or fd_clear_all has cleared the FD table, a following
\* init_fd_table_with_std leaves stdout at fd 1, so that write(1, buf, 8) with
\* a valid buffer returns 8.
ReseededAtNextInit ==
    [][((Called("sys_exit_trampoline") /\ ~last'.panic) \/ FdClearAll)
          => LET t == init_fd_table_with_std(fdTable')
             IN  /\ t # NoTable
                 /\ 1 \in DOMAIN Unwrap(t)
                 /\ Unwrap(t)[1].file = Stdout
                 /\ sys_write(t, U(1), USER_BUF, U(8)).ret = U(8)
      ]_vars

-----------------------------------------------------------------------------
(* Properties of the VFS                                                   *)

\* The step taken is the body of the named operation.
Did(op) == AtBody(op) /\ cpu'.done

\* The root directory of a mount table that has its root mount.
RootOf(mt) == mt[find_root(mt)].root

\* The components of the path of the operation in progress.
Components == split_path(normalize_path(cpu.path))

RECURSIVE NodeAt(_, _)
\* The node the components lead to from `node`, as <<node>>, or <<>> when a
\* name is missing or a node on the way is not a directory.
NodeAt(node, components) ==
    IF components = <<>> THEN <<node>>
    ELSE IF node.kind = "Directory" /\ Head(components) \in DOMAIN node.children
         THEN NodeAt(node.children[Head(components)], Tail(components))
    ELSE <<>>

\* The node at the first i components of the path in progress is of the kind.
PrefixIs(mt, i, kind) ==
    LET at == NodeAt(RootOf(mt), SubSeq(Components, 1, i))
    IN  at # <<>> /\ at[1].kind = kind

CreateThenResolve ==
    [][(Did("vfs_create_file") /\ cpu'.ret.ok)
          => LET r == resolve_path(mountTable', cpu.path)
             IN  /\ r.ok
                 /\ r.file = cpu.file
                 /\ NodeAt(RootOf(mountTable'), Components) = <<File(r.file)>>
      ]_vars

\* C25 as claimed: resolve(path) returns ENOENT if a directory lookup along
\* the path misses, ENOTDIR if a non-terminal component is a File, EISDIR if
\* the fully resolved node is a Directory, and never changes the tree.
ResolveTaxonomy ==
    [][(Did("resolve_path") /\ find_root(mountTable) # 0)
          => /\ mountTable' = mountTable
             /\ (\E i \in 0..(Len(Components) - 1) :
                    /\ PrefixIs(mountTable, i, "Directory")
                    /\ NodeAt(RootOf(mountTable), SubSeq(Components, 1, i + 1)) = <<>>)
                   => cpu'.ret = [ok |-> FALSE, val |-> ENOENT]
             /\ (\E i \in 1..(Len(Components) - 1) : PrefixIs(mountTable, i, "File"))
                   => cpu'.ret = [ok |-> FALSE, val |-> ENOTDIR]
             /\ PrefixIs(mountTable, Len(Components), "Directory")
                   => cpu'.ret = [ok |-> FALSE, val |-> EISDIR]
      ]_vars

\* C26: mkdir is idempotent and creates parents.  When the root mount is
\* there and no component of the path is a File, mkdir returns Ok and every
\* prefix of the path is then a Directory; if the path was a directory
\* already the whole tree is as before; a second mkdir changes nothing; and
\* the path with more leading or trailing slashes gives the same tree.
MkdirIdempotent ==
    [][(/\ Did("vfs_mkdir")
        /\ find_root(mountTable) # 0
        /\ \A i \in 1..Len(Components) :
              NodeAt(RootOf(mountTable), SubSeq(Components, 1, i)) = <<>>
                 \/ PrefixIs(mountTable, i, "Directory"))
          => /\ cpu'.ret = [ok |-> TRUE, val |-> 0]
             /\ \A i \in 0..Len(Components) : PrefixIs(mountTable', i, "Directory")
             /\ PrefixIs(mountTable, Len(Components), "Directory")
                   => mountTable' = mountTable
             /\ vfs_mkdir(mountTable', cpu.path) = VfsOk(mountTable', NoFile)
             /\ \A v \in {<<Slash>> \o cpu.path, cpu.path \o <<Slash>>,
                          <<Slash, Slash>> \o cpu.path \o <<Slash, Slash>>} :
                   vfs_mkdir(mountTable, v) = VfsOk(mountTable', NoFile)
      ]_vars

\* C26 witness: mkdir("//e//h/") has returned Ok on a tree where /e/h was a
\* directory already, and its child x is still there.
MkdirIdempotentWitness ==
    /\ cpu.op = "vfs_mkdir" /\ cpu.done /\ cpu.ret.ok
    /\ cpu.path = <<"/", "/", "e", "/", "/", "h", "/">>
    /\ NodeAt(RootOf(mountTable), <<<<"e">>, <<"h">>, <<"x">>>>) # <<>>

\* C27 as claimed: mkdir(path) returns ENOTDIR whenever a component of the
\* path, an intermediate one or the last one, exists in the tree as a File.
MkdirOverFile ==
    [][(/\ Did("vfs_mkdir")
        /\ find_root(mountTable) # 0
        /\ \E i \in 1..Len(Components) : PrefixIs(mountTable, i, "File"))
          => cpu'.ret = [ok |-> FALSE, val |-> ENOTDIR]
      ]_vars

\* C28 as claimed: create_file("/") returns EINVAL; when an intermediate
\* component is a File or the leaf name exists as a Directory, create_file
\* returns ENOTDIR and the node that was there is there still.
CreateFileConflicts ==
    [][Did("vfs_create_file")
          => /\ normalize_path(cpu.path) = <<Slash>>
                   => cpu'.ret = [ok |-> FALSE, val |-> EINVAL]
             /\ find_root(mountTable) # 0
                   => \A i \in 1..Len(Components) :
                         (PrefixIs(mountTable, i, IF i < Len(Components) THEN "File"
                                                  ELSE "Directory"))
                            => /\ cpu'.ret = [ok |-> FALSE, val |-> ENOTDIR]
                               /\ NodeAt(RootOf(mountTable'), SubSeq(Components, 1, i))
                                     = NodeAt(RootOf(mountTable), SubSeq(Components, 1, i))
      ]_vars

-----------------------------------------------------------------------------
(* Properties of MemFile                                                   *)

\* C29: in-memory file round trip.  For every byte sequence b, writing b to
\* a fresh empty MemFile, setting the offset back to 0 and reading len(b)
\* bytes returns len(b) and leaves exactly b in the buffer.
MemFileRoundTrip ==
    (last.op = "vfs_test_write" /\ last.at = "read")
        => /\ last.n = Len(last.b)
           /\ last.buf = last.b
           /\ pc # "panic"

\* C29 witness: vfs_test_write has read back b"abc".
MemFileRoundTripWitness ==
    /\ last.op = "vfs_test_write" /\ last.at = "read"
    /\ last.b = ABC /\ last.buf = ABC /\ last.n = 3

\* C30: MemFile semantics.  A write of n bytes at offset o leaves
\* size = max(old size, o + n), the bytes [o, o + n) equal to the buffer,
\* every other byte as before (a gap zero-filled), offset = o + n, and
\* returns n.  A read with a buffer of k bytes at offset o returns
\* c = min(k, size - o) bytes equal to data[o, o + c) and advances the
\* offset by c; at the end a read returns 0 and changes nothing.
MemFileSemantics ==
    [][/\ \A b \in Bufs : MemWrite(b)
             => LET o == memFile.offset
                    n == Len(b)
                IN  /\ Len(memFile'.data) = Max(Len(memFile.data), o + n)
                    /\ \A i \in 1..Len(memFile'.data) :
                          memFile'.data[i] =
                              IF o < i /\ i <= o + n THEN b[i - o]
                              ELSE IF i <= Len(memFile.data) THEN memFile.data[i]
                              ELSE 0
                    /\ memFile'.offset = o + n
                    /\ last'.n = n
       /\ \A k \in ReadLens : MemRead(k)
             => LET o == memFile.offset
                    size == Len(memFile.data)
                    c == IF o >= size THEN 0 ELSE Min(k, size - o)
                IN  /\ last'.n = c
                    /\ SubSeq(last'.buf, 1, c) = SubSeq(memFile.data, o + 1, o + c)
                    /\ memFile'.offset = o + c
                    /\ memFile'.data = memFile.data
                    /\ o >= size => (last'.n = 0 /\ memFile' = memFile)
      ]_vars

\* C30 witness: on a file holding "abc" with one byte read, the write of
\* "bb" has overwritten the last two bytes and left the offset at the end.
MemFileSemanticsWitness ==
    /\ last.op = "write" /\ last.b = <<98, 98>> /\ last.n = 2
    /\ memFile = [data |-> <<97, 98, 98>>, offset |-> 3]

-----------------------------------------------------------------------------
(* Properties of the pointer guard                                         *)

\* Bits 47..63 of the address are all 0 or all 1.
Canonical(ptr) ==
    \/ ptr[1] = 0 /\ ptr[2] < HalfLimb
    \/ ptr[1] = LimbBase - 1 /\ ptr[2] >= HalfLimb

\* C31: is_user_ptr(addr) is true exactly for
\* 1 <= addr <= 0x0000_7FFF_FFFF_FFFF: false for 0, for every non-canonical
\* address and for every address above the user/kernel split.
UserPtrExact ==
    codec.kind = "guard"
        => /\ codec.ok <=> /\ codec.ptr[1] = 0
                           /\ codec.ptr[2] < HalfLimb
                           /\ codec.ptr # <<0, 0, 0, 0>>
           /\ codec.ptr = U(0) => ~codec.ok
           /\ ~Canonical(codec.ptr) => ~codec.ok
           /\ ULt(USER_SPLIT, codec.ptr) => ~codec.ok

\* C31 witness: the guard has accepted the split address 0x0000_7FFF_FFFF_FFFF.
UserPtrExactWitness ==
    codec.kind = "guard" /\ codec.ptr = USER_SPLIT /\ codec.ok

-----------------------------------------------------------------------------
(* The heap allocator on its own: init, then allocations and deallocations *)

\* Size in bytes of the heap region, once aligned.
MaxHeapSize == 32

\* Most allocations live at a time.
MaxLive == 2

\* The (heap_start, heap_size) handed to init: a start that init has to
\* align, and a size that leaves MaxHeapSize bytes from the aligned start.
HeapRegions == {<<1032, MaxHeapSize + 120>>}

\* Layouts asked for: one for each size class that holds blocks, one whose
\* alignment decides the class, one whose class is empty and one too large
\* for any class.
Layouts ==
    {Layout(8, 8), Layout(16, 8), Layout(8, 16), Layout(24, 8), Layout(64, 8), Layout(4097, 8)}

HeapInit ==
    /\ pc = "user"
    /\ fdTable = NoTable
    /\ last = NoCall
    /\ codec = Idle
    /\ VfsCold

\* init_heap: ALLOCATOR.lock().init(aligned_start, adjusted_size), once.
InitHeap ==
    /\ allocator = NoHeap
    /\ \E region \in HeapRegions : allocator' = init(NoHeap, region[1], region[2])
    /\ UNCHANGED <<pc, fdTable, last, codec, mountTable, held, cpu, memFile, timer>>

\* ALLOCATOR.alloc(layout); a block that was returned is live from then on.
HeapAlloc ==
    /\ allocator # NoHeap
    /\ Cardinality(allocator.live) < MaxLive
    /\ \E layout \in Layouts :
           \E o \in alloc(allocator, layout) :
               allocator' =
                   IF o.ptr = 0 THEN o.heap
                   ELSE [o.heap EXCEPT !.live = @ \cup {[ptr |-> o.ptr, layout |-> layout]}]
    /\ UNCHANGED <<pc, fdTable, last, codec, mountTable, held, cpu, memFile, timer>>

\* ALLOCATOR.dealloc(ptr, layout) of a live allocation, with its layout.
HeapDealloc ==
    /\ \E a \in allocator.live :
           allocator' = [dealloc(allocator, a.ptr, a.layout) EXCEPT !.live = @ \ {a}]
    /\ UNCHANGED <<pc, fdTable, last, codec, mountTable, held, cpu, memFile, timer>>

NextHeap ==
    \/ InitHeap
    \/ HeapAlloc
    \/ HeapDealloc

SpecHeap == HeapInit /\ [][NextHeap]_vars

-----------------------------------------------------------------------------
(* hlt_loop: the timer interrupt ticks, the idle loop checks the watchdog  *)

\* Largest tick count reached.
MaxTicks == 6

\* Largest window, number of grace checks and failure threshold given to
\* Watchdog::new.
MaxWindow == 2

MaxGrace == 1

MaxThreshold == 2

TimerInit ==
    /\ pc = "user"
    /\ fdTable = NoTable
    /\ last = NoCall
    /\ codec = Idle
    /\ VfsCold

\* The LAPIC timer interrupt: tick().
Tick ==
    /\ timer.alive
    /\ ~timer.panic
    /\ timer.ticks < MaxTicks
    /\ timer' = [timer EXCEPT !.ticks = @ + 1]
    /\ UNCHANGED <<pc, fdTable, last, codec, mountTable, held, cpu, memFile, allocator>>

\* The timer stops delivering interrupts: the tick counter stalls from here.
TimerStops ==
    /\ timer.alive
    /\ timer' = [timer EXCEPT !.alive = FALSE]
    /\ UNCHANGED <<pc, fdTable, last, codec, mountTable, held, cpu, memFile, allocator>>

\* let mut wd = Watchdog::new(window, grace_checks, failure_threshold);
NewWatchdog ==
    /\ ~timer.made
    /\ \E window \in 0..MaxWindow, grace \in 0..MaxGrace, threshold \in 1..MaxThreshold :
           timer' = [timer EXCEPT !.made = TRUE,
                                  !.wd = Watchdog_new(timer.ticks, window, grace, threshold)]
    /\ UNCHANGED <<pc, fdTable, last, codec, mountTable, held, cpu, memFile, allocator>>

\* One turn of the loop of hlt_loop: an interrupt ends the hlt, wd.check().
Check ==
    /\ timer.made
    /\ ~timer.panic
    /\ \E r \in {Watchdog_check(timer.wd, timer.ticks)} :
           timer' = [timer EXCEPT !.wd = r.wd, !.panic = r.panic]
    /\ UNCHANGED <<pc, fdTable, last, codec, mountTable, held, cpu, memFile, allocator>>

NextTimer ==
    \/ Tick
    \/ TimerStops
    \/ NewWatchdog
    \/ Check

SpecTimer == TimerInit /\ [][NextTimer]_vars

\* The idle loop never ends: a check that has something to do is made.
SpecTimerFair == SpecTimer /\ WF_vars(Check)

-----------------------------------------------------------------------------
(* Properties of fd_close and the backends' close                          *)

\* The file object the table holds at the descriptor of the call just made.
Closed == Unwrap(fdTable)[Val(last'.a0)].file

\* fd_close has just been called on a descriptor >= 3 that was open.
ClosedOpenFd ==
    /\ Called("fd_close")
    /\ ~ULt(last'.a0, U(3))
    /\ contains_key(Unwrap(fdTable), last'.a0)

\* C32 as claimed: closing a descriptor whose backend does not override
\* close, through the FileLike default or through the VfsFileLike adapter
\* over a FileOps backend that keeps the trait default, returns success (0)
\* and never an error.
DefaultCloseSucceeds ==
    [][(ClosedOpenFd /\ Closed \in {Stdout, VfsFileLike_default})
          => last'.ret = U(0)
      ]_vars

\* C36: fd_close(fd) on an open descriptor fd >= 3 removes the entry whether
\* or not the backend's close returns an error: the result of the backend's
\* close is returned, fd is no longer open, every other entry is untouched,
\* and a following fd_alloc returns fd whenever no lower descriptor is free.
CloseRemovesOnError ==
    [][ClosedOpenFd
          => LET c == file_close(Closed)
                 fd == Val(last'.a0)
             IN  /\ last'.ret = IF c.ok THEN U(0) ELSE err(c.val)
                 /\ fdTable' = Some(Remove(Unwrap(fdTable), fd))
                 /\ ~contains_key(Unwrap(fdTable'), last'.a0)
                 /\ (\A m \in 3..(fd - 1) : m \in Keys)
                       => fd_alloc(fdTable', FdEntry(Stdout)).ret = last'.a0
      ]_vars

\* C36 witness: fd_close(3) on the adapter over a default FileOps backend has
\* returned encode(ENOSYS) and descriptor 3 is no longer open.
CloseRemovesOnErrorWitness ==
    /\ pc = "trap" /\ last.op = "fd_close" /\ last.a0 = U(3)
    /\ last.ret = err(ENOSYS)
    /\ 3 \notin Keys

-----------------------------------------------------------------------------
(* Properties of the MemFile's fields                                      *)

\* A read of the MemFile: one made on its own or the one of vfs_test_write.
MemReadStep == MemReads \/ TestRead

\* A write to the MemFile: one made on its own or the one of vfs_test_write.
MemWriteStep == MemWrites \/ TestWrite

\* C38: the MemFile invariant.  A MemFile made by MemFile::new has
\* 0 <= offset <= data.len(); every read and every write keeps that, never
\* makes the data shorter, and a read leaves the data as it was.
MemFileInvariant ==
    [][/\ (MemNew \/ TestNew \/ MemReadStep \/ MemWriteStep)
           => (0 <= memFile'.offset /\ memFile'.offset <= Len(memFile'.data))
       /\ (MemReadStep \/ MemWriteStep) => Len(memFile'.data) >= Len(memFile.data)
       /\ MemReadStep => memFile'.data = memFile.data
      ]_vars

\* C38 witness: a read asking for more bytes than are left has stopped at
\* the end of a store that a write had grown to MaxMemSize bytes.
MemFileInvariantWitness ==
    /\ last.op = "read" /\ Len(last.buf) > last.n /\ last.n > 0
    /\ memFile.offset = Len(memFile.data)
    /\ Len(memFile.data) = MaxMemSize

-----------------------------------------------------------------------------
(* Properties of failed VFS operations                                     *)

\* vfs_mkdir or vfs_create_file has just returned an error.
VfsFailed == (Did("vfs_mkdir") \/ Did("vfs_create_file")) /\ ~cpu'.ret.ok

\* C37: failure atomicity.  Whenever vfs_mkdir or vfs_create_file returns an
\* error, which is one of ENOTDIR, ENOSYS, EISDIR, EINVAL and ENOENT, the
\* mount table and the tree under it are identical to those before the call:
\* no directory created during the walk remains.
FailureAtomic ==
    [][VfsFailed
          => /\ mountTable' = mountTable
             /\ cpu'.ret.val \in {ENOTDIR, ENOSYS, EISDIR, EINVAL, ENOENT}
      ]_vars

\* C37 witness: mkdir("/e/h/x") has returned ENOTDIR on a tree where /e/h is
\* a file, and /e/h/x is not in the tree.
FailureAtomicWitness ==
    /\ cpu.op = "vfs_mkdir" /\ cpu.done
    /\ cpu.ret = [ok |-> FALSE, val |-> ENOTDIR]
    /\ cpu.path = <<"/", "e", "/", "h", "/", "x">>
    /\ NodeAt(RootOf(mountTable), <<<<"e">>, <<"h">>>>) # <<>>
    /\ NodeAt(RootOf(mountTable), <<<<"e">>, <<"h">>, <<"x">>>>) = <<>>

-----------------------------------------------------------------------------
(* Properties of the descriptors of legacy paths                           *)

\* What read and write return on descriptor fd of table t, for every
\* non-zero length and every buffer both handlers take as valid.
ConsoleSinkAt(t, fd) ==
    \A buf \in BufPtrs, len \in Lens \ {U(0)} :
        is_user_ptr(buf)
           => /\ sys_read(t, fd, buf, len).ret = err(EBADF)
              /\ sys_read(t, fd, buf, len).table = t
              /\ (ULe(len, U(MAX_WRITE)) /\ write_copy_from_user(buf, Val(len)))
                    => /\ sys_write(t, fd, buf, len).ret = len
                       /\ sys_write(t, fd, buf, len).table = t

-----------------------------------------------------------------------------
(* Properties of run_syscall_tests                                         *)

\* C33 as claimed: every syscall runs to completion, no handler blocks
\* forever on the FD-table spin lock; in particular the second exit of the
\* harness, issued while the guard taken from current_process_fd_table() is
\* still in scope, completes and returns 0.
SyscallsComplete ==
    (cpu.op # "idle")
        ~> (/\ cpu.op # "idle" /\ cpu.done
            /\ cpu.op = "sys_exit" => cpu.ret = [ok |-> TRUE, val |-> 0])

-----------------------------------------------------------------------------
(* Properties of the heap allocator                                        *)

\* C39 as claimed: heap allocator disjointness.  After init, for any sequence
\* of alloc and dealloc calls, no two live allocations overlap in memory,
\* whether they come from the same size-class list, from two lists or from
\* the fallback allocator.
LiveDisjoint ==
    \A a, b \in allocator.live :
        a # b => ~Overlap(a.ptr, a.layout.size, b.ptr, b.layout.size)

-----------------------------------------------------------------------------
(* Properties of the watchdog                                              *)

\* C35 as claimed: watchdog stall detection.  With window > 0, once the tick
\* counter makes no more progress the checks consume grace_left, then count
\* consecutive_failures, and the watchdog panics when these reach
\* failure_threshold; and a check that observes progress at a window boundary
\* resets consecutive_failures to 0 and moves the baseline to the tick count.
StallDetected ==
    /\ (timer.made /\ timer.wd.window > 0 /\ ~timer.alive) ~> timer.panic
    /\ [][(Check /\ timer.wd.window > 0 /\ timer.ticks >= timer.wd.last_ticks + timer.wd.window)
             => /\ timer'.wd.consecutive_failures = 0
                /\ timer'.wd.last_ticks = timer.ticks]_vars

====
